---- MODULE Spec2Model ----
(***************************************************************************)
(* Job orchestration and streaming pipeline of the Automation-agent        *)
(* repository: the job registry (backend/jobs.py), the pipeline worker     *)
(* (backend/worker.py), the job API (backend/server.py), the streaming     *)
(* pipeline (pipeline/streaming_pipeline.py) and the batched writer        *)
(* AsyncDatabaseInserter (scrapper/Scrapper.py).                           *)
(*                                                                         *)
(* Text is a sequence of one-character strings, so that the string         *)
(* functions of the source (strip, upper, startswith, urlparse, rstrip,    *)
(* the digit filter of parse_price) are computed as the source computes    *)
(* them.                                                                   *)
(***************************************************************************)
EXTENDS Integers, Sequences, FiniteSets, TLC

(***************************************************************************)
(* Bounds of the model.                                                    *)
(***************************************************************************)
\* job ids the API can hand out
MaxJobs == 2
\* addresses the discovery call returns at most (after the TLD filter)
MaxUrls == 2
\* candidate records one fetch returns at most
MaxProducts == 2
\* records handed to the batched writer at most
MaxRecords == 4
\* batch_size the batched writer is constructed with
BatchSize == 2
\* calls of close() on the batched writer at most
MaxCloses == 2

(***************************************************************************)
(* Text helpers.                                                           *)
(***************************************************************************)
None == <<"None">>

Digits == {"0", "1", "2", "3", "4", "5", "6", "7", "8", "9"}

DigitVal(c) ==
    CASE c = "0" -> 0 [] c = "1" -> 1 [] c = "2" -> 2 [] c = "3" -> 3
      [] c = "4" -> 4 [] c = "5" -> 5 [] c = "6" -> 6 [] c = "7" -> 7
      [] c = "8" -> 8 [] c = "9" -> 9

\* str.startswith
StartsWith(s, p) == Len(s) >= Len(p) /\ SubSeq(s, 1, Len(p)) = p

\* str.strip() for the blank character
RECURSIVE LStrip(_)
LStrip(s) == IF s # <<>> /\ Head(s) = " " THEN LStrip(Tail(s)) ELSE s

RECURSIVE RStrip(_, _)
RStrip(s, c) ==
    IF s # <<>> /\ s[Len(s)] = c THEN RStrip(SubSeq(s, 1, Len(s) - 1), c) ELSE s

Strip(s) == RStrip(LStrip(s), " ")

\* str.upper() on the letters the model uses
UpperChar(c) ==
    CASE c = "a" -> "A" [] c = "e" -> "E" [] c = "d" -> "D" [] c = "h" -> "H"
      [] c = "t" -> "T" [] c = "n" -> "N" [] c = "u" -> "U" [] c = "s" -> "S"
      [] OTHER -> c

Upper(s) == [i \in 1..Len(s) |-> UpperChar(s[i])]

\* str.lower() on the letters the model uses
LowerChar(c) ==
    CASE c = "T" -> "t" [] c = "V" -> "v" [] c = "N" -> "n" [] OTHER -> c

Lower(s) == [i \in 1..Len(s) |-> LowerChar(s[i])]

\* the Python test  k in s  on texts
IsSubstring(k, s) ==
    \E i \in 1..(Len(s) - Len(k) + 1) : SubSeq(s, i, i + Len(k) - 1) = k

\* index of the first character of s, at or after position from, that is in
\* stops; Len(s) + 1 when there is none
RECURSIVE FindAny(_, _, _)
FindAny(s, stops, from) ==
    IF from > Len(s) THEN Len(s) + 1
    ELSE IF s[from] \in stops THEN from
    ELSE FindAny(s, stops, from + 1)

(***************************************************************************)
(* Record validator / normalizer: pipeline/streaming_pipeline.py           *)
(***************************************************************************)
ALLOWED_CURRENCIES == {<<"A", "E", "D">>, <<"T", "N", "D">>}

\* The Latin keys of the table; the Arabic-script keys map to the same two
\* codes and are not representable in the module's character set.
CURRENCY_NORMALIZATION(k) ==
    CASE k = <<"A", "E", "D">> -> <<"A", "E", "D">>
      [] k = <<"D">> -> <<"A", "E", "D">>
      [] k = <<"D", "H">> -> <<"A", "E", "D">>
      [] k = <<"D", "H", "M">> -> <<"A", "E", "D">>
      [] k = <<"T", "N", "D">> -> <<"T", "N", "D">>
      [] k = <<"D", "T">> -> <<"T", "N", "D">>
      [] k = <<"D", "I", "N">> -> <<"T", "N", "D">>
      [] OTHER -> None

normalize_currency(raw) ==
    IF raw = None \/ raw = <<>> THEN None
    ELSE CURRENCY_NORMALIZATION(Upper(Strip(raw)))

\* float() of a text of digits and dots, in hundredths, truncated:
\* [ok |-> FALSE] is ValueError; pos tells whether the value is > 0
RECURSIVE DigitsValue(_)
DigitsValue(s) ==
    IF s = <<>> THEN 0 ELSE 10 * DigitsValue(SubSeq(s, 1, Len(s) - 1)) + DigitVal(s[Len(s)])

FloatOf(s) ==
    LET dot == FindAny(s, {"."}, 1)
        ip == SubSeq(s, 1, dot - 1)
        fp == SubSeq(s, dot + 1, Len(s))
        f2 == SubSeq(fp \o <<"0", "0">>, 1, 2)
    IN  IF \/ FindAny(s, {"."}, dot + 1) <= Len(s)
           \/ (ip = <<>> /\ fp = <<>>)
        THEN [ok |-> FALSE, v |-> 0, pos |-> FALSE]
        ELSE [ok |-> TRUE,
              v |-> 100 * DigitsValue(ip) + DigitsValue(f2),
              pos |-> \E i \in 1..Len(s) : s[i] \in Digits \ {"0"}]

\* A raw price is absent ([kind |-> "none"]), a number in hundredths
\* ([kind |-> "num", num |-> n]) or a text ([kind |-> "str", str |-> s]).
\* The result is NoPrice for None, else the price in hundredths.
NoPrice == [ok |-> FALSE, v |-> 0]

parse_price(value) ==
    IF value.kind = "none" THEN NoPrice
    ELSE IF value.kind = "num"
    THEN IF value.num > 0 THEN [ok |-> TRUE, v |-> value.num] ELSE NoPrice
    ELSE LET cleaned == SelectSeq(value.str, LAMBDA c : c \in Digits \/ c = ".")
             price == FloatOf(cleaned)
         IN  IF cleaned = <<>> THEN NoPrice
             ELSE IF price.ok /\ price.pos THEN [ok |-> TRUE, v |-> price.v] ELSE NoPrice

HttpPrefix == <<"h", "t", "t", "p", ":", "/", "/">>
HttpsPrefix == <<"h", "t", "t", "p", "s", ":", "/", "/">>
UnknownUrlText == {<<"U", "n", "k", "n", "o", "w", "n", " ", "U", "R", "L">>,
                   <<"u", "n", "k", "n", "o", "w", "n">>, <<>>}

normalize_url(url) ==
    IF url = None \/ url \in UnknownUrlText THEN None
    ELSE LET u == Strip(url)
         IN  IF StartsWith(u, HttpPrefix) \/ StartsWith(u, HttpsPrefix) THEN u ELSE None

\* urlparse of an address with a scheme: scheme up to ':', netloc after '//'
\* up to the first of '/', '?', '#', path up to the first of '?', '#'
urlparse(url) ==
    LET colon == FindAny(url, {":"}, 1)
        hasNet == Len(url) >= colon + 2 /\ SubSeq(url, colon + 1, colon + 2) = <<"/", "/">>
        netFrom == IF hasNet THEN colon + 3 ELSE colon + 1
        netTo == IF hasNet THEN FindAny(url, {"/", "?", "#"}, netFrom) ELSE netFrom
        pathTo == FindAny(url, {"?", "#"}, netTo)
    IN  [scheme |-> SubSeq(url, 1, colon - 1),
         netloc |-> SubSeq(url, netFrom, netTo - 1),
         path |-> SubSeq(url, netTo, pathTo - 1)]

canonical_url(url) ==
    LET parsed == urlparse(url)
    IN  RStrip(parsed.scheme \o <<":", "/", "/">> \o parsed.netloc \o parsed.path, "/")


(***************************************************************************)
(* Category filter: pipeline/streaming_pipeline.py                         *)
(***************************************************************************)
\* Two of the fourteen category keys, each with two of its keywords.
AVAILABLE_CATEGORIES ==
    [ELECTRONIC_PRODUCTS |-> {<<"t", "v">>, <<"l", "a", "p", "t", "o", "p">>},
     LIVING_FURNITURE_ESSENTIAL |-> {<<"s", "o", "f", "a">>, <<"b", "e", "d">>}]

\* f"{x}" of a text or of None
Fmt(x) == IF x = None THEN <<"N", "o", "n", "e">> ELSE x

match_product_to_selected_categories(product_name, category, selected_categories) ==
    IF selected_categories = <<>> THEN TRUE
    ELSE LET search_text == Lower(Fmt(product_name) \o <<" ">> \o Fmt(category))
         IN  \E i \in 1..Len(selected_categories) :
                /\ selected_categories[i] \in DOMAIN AVAILABLE_CATEGORIES
                /\ \E keyword \in AVAILABLE_CATEGORIES[selected_categories[i]] :
                       IsSubstring(Lower(keyword), search_text)

(***************************************************************************)
(* Inputs: what the collaborators and the API callers can hand in.         *)
(***************************************************************************)
UrlA == HttpPrefix \o <<"x", ".", "c", "/", "a">>
UrlASlash == UrlA \o <<"/">>
UrlWwwA == HttpPrefix \o <<"w", "w", "w", ".", "x", ".", "c", "/", "a">>
UrlB == HttpPrefix \o <<"x", ".", "c", "/", "b">>
NameTV == <<"T", "V">>
NameSofa == <<"s", "o", "f", "a">>
PriceText == [kind |-> "str", str |-> <<"1", ",", "2", "9", "9", ".", "0", "0">>]
PriceFree == [kind |-> "str", str |-> <<"F", "r", "e", "e">>]
PriceMinus == [kind |-> "str", str |-> <<"-", "5">>]
AED == <<"A", "E", "D">>

Cand(n, u, p, c) == [product_name |-> n, product_url |-> u, price |-> p, currency |-> c,
                     category |-> None]

\* the candidate records a fetch can return
Candidates ==
    { Cand(NameTV, UrlA, PriceText, AED),
      Cand(NameTV, UrlASlash, PriceText, <<" ", "a", "e", "d">>),
      Cand(NameTV, UrlWwwA, [kind |-> "num", num |-> 500], <<"D", "T">>),
      Cand(NameTV, None, PriceText, AED),
      Cand(None, UrlB, PriceText, AED),
      Cand(NameTV, UrlA, PriceFree, AED),
      Cand(NameTV, UrlB, PriceText, <<"U", "S", "D">>),
      Cand(NameTV, <<"u", "n", "k", "n", "o", "w", "n">>, PriceText, AED),
      Cand(NameSofa, UrlB, PriceText, AED),
      Cand(NameTV, UrlB, PriceMinus, AED) }

\* the candidate records of the runs with several units: one address written
\* in three ways, a record without an address of its own, a price without
\* digits
RunCandidates ==
    { Cand(NameTV, UrlA, PriceText, AED),
      Cand(NameTV, UrlASlash, PriceText, <<" ", "a", "e", "d">>),
      Cand(NameTV, UrlWwwA, [kind |-> "num", num |-> 500], <<"D", "T">>),
      Cand(NameTV, None, PriceText, AED),
      Cand(NameTV, UrlA, PriceFree, AED) }

\* the candidate records of the runs whose statistics sections are followed
\* step by step: a valid record without an address of its own, and on one
\* address a price without digits (invalid, or duplicate the second time)
\* and a record the category filter drops
StatsCandidates ==
    { Cand(NameTV, None, PriceText, AED),
      Cand(NameTV, UrlA, PriceFree, AED),
      Cand(NameSofa, UrlA, PriceText, AED) }

\* the address of the i-th page the discovery returns
PageUrl(i) == HttpPrefix \o <<"x", ".", "c", "/", "p">> \o
              (IF i = 1 THEN <<"1">> ELSE IF i = 2 THEN <<"2">> ELSE <<"3">>)

\* the category filters a job can be created with
CategoryFilters == {<<>>, <<"ELECTRONIC_PRODUCTS">>}

\* exceptions (type, message) that escape the pipeline from its partner lookup
Exceptions == {[type |-> "OperationalError", msg |-> "db down"]}

JobIds == 1..MaxJobs

\* the start addresses a job-creation request can carry
StartUrl == HttpPrefix \o <<"x", ".", "c">>
StartUrls ==
    { StartUrl,
      HttpsPrefix \o <<"x", ".", "c">>,
      <<"x", ".", "c">>,
      <<"h", "t", "t", "p", ":", "/", "x", ".", "c">>,
      <<"f", "t", "p", ":", "/", "/", "x", ".", "c">>,
      <<" ">> \o StartUrl,
      <<>> }

\* A scenario bounds what the environment does in one behaviour: how many
\* jobs are created, how many addresses the discovery returns, how many
\* candidates one fetch returns and which, and the category filters used.
JobsScenario ==
    [jobs |-> MaxJobs, start_urls |-> {StartUrl}, urls |-> 1, prods |-> 1,
     cands |-> {Cand(NameTV, UrlA, PriceText, AED), Cand(NameTV, UrlA, PriceFree, AED)},
     filters |-> {<<>>}]
RunScenario ==
    [jobs |-> 1, start_urls |-> {StartUrl}, urls |-> MaxUrls, prods |-> 1,
     cands |-> RunCandidates, filters |-> {<<>>}]
UnitScenario ==
    [jobs |-> 1, start_urls |-> {StartUrl}, urls |-> 1, prods |-> MaxProducts,
     cands |-> Candidates, filters |-> CategoryFilters]
ClientScenario ==
    [jobs |-> 1, start_urls |-> {StartUrl}, urls |-> 1, prods |-> 1,
     cands |-> {Cand(NameTV, UrlA, PriceText, AED)}, filters |-> {<<>>}]
ApiScenario ==
    [jobs |-> 1, start_urls |-> StartUrls, urls |-> 1, prods |-> 1,
     cands |-> {Cand(NameTV, UrlA, PriceText, AED)}, filters |-> {<<>>}]
LiveScenario ==
    [jobs |-> 1, start_urls |-> {StartUrl}, urls |-> 1, prods |-> 1,
     cands |-> {Cand(NameTV, UrlA, PriceText, AED)}, filters |-> {<<>>}]
StatsScenario ==
    [jobs |-> 1, start_urls |-> {StartUrl}, urls |-> MaxUrls, prods |-> MaxProducts,
     cands |-> StatsCandidates, filters |-> {<<"ELECTRONIC_PRODUCTS">>}]

(***************************************************************************)
(* State.                                                                  *)
(***************************************************************************)
VARIABLES
    jobs,        \* JobRegistry._jobs: job id -> Job (status "none": no entry)
    threads,     \* PipelineWorker._threads: the job ids with an entry
    pc,          \* per job: position of its worker thread in _run / the pipeline
    ret,         \* per job: what true_streaming_pipeline returned or raised
    stop_flag,   \* per job: the run's threading.Event
    cb_raised,   \* per job, history: the progress callback has raised in the run
    nurls,       \* per job: len(filtered_urls)
    submitted,   \* per job: number of addresses submitted to the pool
    yielded,     \* per job: futures as_completed has handed to the join loop
    completed_count, \* per job: completed_count of the join loop
    units,       \* per job: url index -> the fetch-and-process unit (future)
    stats,       \* per job: the run statistics
    seen_urls,   \* per job: the run's Seen-Set
    store,       \* the products table with each row's insurance package
    hist,        \* per job: history of the run, for stating properties
    scn,         \* the scenario of the behaviour
    held,        \* the Job value a caller of get_job holds, with history
    http_error,  \* the HTTPException the API raised, until the client reads it
    product_queue, \* AsyncDatabaseInserter.product_queue
    stop_event,  \* AsyncDatabaseInserter.stop_event
    writer,      \* the writer thread: its position and its local batch
    table,       \* the ids of the records the writer inserted in the database
    wstats,      \* AsyncDatabaseInserter.stats
    wseen,       \* AsyncDatabaseInserter.seen_urls
    closer,      \* the caller of close(): its position, calls made and returned
    whist        \* history of the writer, for stating properties

runvars == <<pc, ret, stop_flag, cb_raised, nurls, submitted, yielded, completed_count,
             units, stats, seen_urls, store, hist>>
jobvars == <<jobs, threads, runvars, scn, held, http_error>>
wvars == <<product_queue, stop_event, writer, table, wstats, wseen, closer, whist>>
vars == <<jobvars, wvars>>

(***************************************************************************)
(* Job registry: backend/jobs.py                                           *)
(***************************************************************************)
NoJob == [status |-> "none", start_url |-> <<>>, progress |-> <<>>, error |-> "",
          result |-> "", stop_requested |-> FALSE, selected_categories |-> <<>>]

\* dict.update / setattr of the given keys
Merge(new, old) ==
    [k \in DOMAIN new \cup DOMAIN old |-> IF k \in DOMAIN new THEN new[k] ELSE old[k]]

create_job(js, job_id, start_url, selected_categories) ==
    [js EXCEPT ![job_id] = [NoJob EXCEPT !.status = "pending",
                                         !.start_url = start_url,
                                         !.selected_categories = selected_categories]]

\* what update_job, update_progress, mark_running, mark_completed,
\* mark_failed and request_stop return: whether the registry has the job
Found(js, job_id) == js[job_id].status # "none"

\* update_job that makes an entry for an id the registry does not have
update_job_upserting(js, job_id, updates) ==
    [js EXCEPT ![job_id] =
        Merge([k \in DOMAIN updates \cap DOMAIN NoJob |-> updates[k]],
              IF @.status = "none" THEN [NoJob EXCEPT !.status = "pending"] ELSE @)]

update_job(js, job_id, updates) ==
    IF js[job_id].status = "none" THEN js
    ELSE [js EXCEPT ![job_id] =
            Merge([k \in DOMAIN updates \cap DOMAIN NoJob |-> updates[k]], @)]

\* update_progress that replaces the progress map
update_progress_replacing(js, job_id, progress) ==
    IF js[job_id].status = "none" THEN js
    ELSE [js EXCEPT ![job_id].progress = progress]

update_progress(js, job_id, progress) ==
    IF js[job_id].status = "none" THEN js
    ELSE [js EXCEPT ![job_id].progress = Merge(progress, @)]

mark_running(js, job_id) == update_job(js, job_id, [status |-> "running"])

mark_completed(js, job_id, result) ==
    update_job(js, job_id, [status |-> "completed", result |-> result])

\* mark_failed with the status of mark_completed
mark_failed_completed(js, job_id, error) ==
    update_job(js, job_id, [status |-> "completed", error |-> error])

mark_failed(js, job_id, error) ==
    update_job(js, job_id, [status |-> "failed", error |-> error])

\* request_stop without the test of the status
request_stop_unguarded(js, job_id) ==
    IF js[job_id].status = "none" THEN js
    ELSE [js EXCEPT ![job_id].stop_requested = TRUE, ![job_id].status = "stopping"]

request_stop(js, job_id) ==
    IF js[job_id].status = "none" THEN js
    ELSE [js EXCEPT ![job_id].stop_requested = TRUE,
                    ![job_id].status = IF @ = "running" THEN "stopping" ELSE @]

should_stop(js, job_id) == js[job_id].status # "none" /\ js[job_id].stop_requested


(***************************************************************************)
(* Initial state: empty registry, no thread, no run.                       *)
(***************************************************************************)
ZeroStats == [scraped |-> 0, processed |-> 0, eligible |-> 0, not_eligible |-> 0,
              duplicates |-> 0, invalid |-> 0, filtered_out |-> 0]

NoRet == [kind |-> "none", error |-> ""]

\* no Job value is held; seen is history: the job as it was handed out;
\* asked and active: is_active was called for the answer, and what it gave
NoHandle == [job |-> 0, seen |-> NoJob, asked |-> FALSE, active |-> FALSE]

\* no HTTPException is on its way to the client
NoError == [op |-> "", job |-> 0, status_code |-> 0, detail |-> ""]

InitState ==
    /\ held = NoHandle
    /\ http_error = NoError
    /\ jobs = [j \in JobIds |-> NoJob]
    /\ threads = {}
    /\ pc = [j \in JobIds |-> "none"]
    /\ ret = [j \in JobIds |-> NoRet]
    /\ stop_flag = [j \in JobIds |-> FALSE]
    /\ cb_raised = [j \in JobIds |-> FALSE]
    /\ nurls = [j \in JobIds |-> 0]
    /\ submitted = [j \in JobIds |-> 0]
    /\ yielded = [j \in JobIds |-> {}]
    /\ completed_count = [j \in JobIds |-> 0]
    /\ units = [j \in JobIds |-> <<>>]
    /\ stats = [j \in JobIds |-> ZeroStats]
    /\ seen_urls = [j \in JobIds |-> {}]
    /\ store = {}
    /\ hist = [j \in JobIds |-> [validated |-> 0, stop_mid |-> FALSE, late_stop |-> FALSE,
                                    saw_stop |-> {}, fetch_failed |-> {},
                                    late_submit |-> {}, stop_early |-> FALSE,
                                    events |-> ZeroStats]]

\* AsyncDatabaseInserter.__init__, for a partner without products: the
\* writer thread is started
InitInserter ==
    /\ product_queue = <<>>
    /\ stop_event = FALSE
    /\ writer = [pc |-> "test", batch |-> <<>>]
    /\ table = {}
    /\ wstats = [added |-> 0, duplicates |-> 0, invalid |-> 0, total |-> 0]
    /\ wseen = {}
    /\ closer = [pc |-> "idle", calls |-> 0, returns |-> 0]
    /\ whist = [flushes |-> <<>>, flushed |-> {}, at_close |-> {}, failed |-> {},
                rejected |-> 0, interleaved |-> FALSE,
                reported |-> [added |-> 0, duplicates |-> 0, invalid |-> 0, total |-> 0]]

Init == InitState /\ InitInserter /\ scn = JobsScenario
InitRun == InitState /\ InitInserter /\ scn = RunScenario
InitUnit == InitState /\ InitInserter /\ scn = UnitScenario
InitWriter == InitState /\ InitInserter /\ scn = JobsScenario
InitClient == InitState /\ InitInserter /\ scn = ClientScenario
InitApi == InitState /\ InitInserter /\ scn = ApiScenario
InitLive == InitState /\ InitInserter /\ scn = LiveScenario
InitStats == InitState /\ InitInserter /\ scn = StatsScenario

(***************************************************************************)
(* Job API and pipeline worker: backend/server.py, backend/worker.py       *)
(***************************************************************************)
UnitDone == {"ok", "stop", "exc", "cancelled"}

\* POST /jobs: the test of the start address, which accepts any text that
\* starts with "http"
HasScheme_lenient(start_url) == StartsWith(start_url, <<"h", "t", "t", "p">>)

\* POST /jobs: the test of the start address
HasScheme(start_url) ==
    StartsWith(start_url, HttpPrefix) \/ StartsWith(start_url, HttpsPrefix)

\* POST /jobs with an accepted start address, first half: the registry entry
\* (a fresh id: the least unused)
CreateJob(j, start_url, cats) ==
    /\ j <= scn.jobs
    /\ start_url \in scn.start_urls
    /\ HasScheme(start_url)
    /\ cats \in scn.filters
    /\ jobs[j].status = "none"
    /\ \A k \in JobIds : k < j => jobs[k].status # "none"
    /\ jobs' = create_job(jobs, j, start_url, cats)
    /\ pc' = [pc EXCEPT ![j] = "created"]
    /\ UNCHANGED <<scn, held, http_error, wvars, threads, ret, stop_flag, cb_raised, nurls, submitted, yielded, completed_count,
                   units, stats, seen_urls, store, hist>>

\* start_job: mark_running
MarkRunning(j) ==
    /\ pc[j] = "created"
    /\ jobs' = mark_running(jobs, j)
    /\ pc' = [pc EXCEPT ![j] = "marked"]
    /\ UNCHANGED <<scn, held, http_error, wvars, threads, ret, stop_flag, cb_raised, nurls, submitted, yielded, completed_count,
                   units, stats, seen_urls, store, hist>>

\* start_job that registers the thread and does not start it
LaunchThread_unstarted(j) ==
    /\ pc[j] = "marked"
    /\ threads' = threads \cup {j}
    /\ UNCHANGED <<scn, held, http_error, wvars, jobs, pc, ret, stop_flag, cb_raised, nurls, submitted,
                   yielded, completed_count, units, stats, seen_urls, store, hist>>

\* start_job: the thread is registered and started
LaunchThread(j) ==
    /\ pc[j] = "marked"
    /\ threads' = threads \cup {j}
    /\ pc' = [pc EXCEPT ![j] = "starting"]
    /\ UNCHANGED <<scn, held, http_error, wvars, jobs, ret, stop_flag, cb_raised, nurls, submitted, yielded, completed_count,
                   units, stats, seen_urls, store, hist>>

Terminal == {"completed", "failed", "stopped"}

\* the run of job j is in progress: some dispatched units have completed,
\* others have not
MidRun(j) ==
    /\ pc[j] \in {"submit", "url_submitted", "submitting", "all_submitted", "wait"}
    /\ \E u \in DOMAIN units[j] : units[j][u].pc \in UnitDone
    /\ \E u \in DOMAIN units[j] : units[j][u].pc \notin UnitDone

\* the positions of a job's thread before its run starts, and the discovery
\* call in progress
BeforeDispatch == {"created", "marked", "starting", "map"}

\* POST /jobs/{id}/stop that returns when the job's thread has ended
RequestStop_joining(j) ==
    /\ jobs[j].status # "none"
    /\ j \notin threads
    /\ jobs' = request_stop(jobs, j)
    /\ hist' = [hist EXCEPT ![j].stop_mid = @ \/ (~jobs[j].stop_requested /\ MidRun(j)),
                             ![j].late_stop = @ \/ jobs[j].status \in Terminal,
                             ![j].stop_early = @ \/ pc[j] \in BeforeDispatch]
    /\ UNCHANGED <<scn, held, http_error, wvars, threads, pc, ret, stop_flag, cb_raised, nurls, submitted,
                   yielded, completed_count, units, stats, seen_urls, store>>

\* POST /jobs/{id}/stop: 404 for an unknown id, else request_stop
RequestStop(j) ==
    /\ jobs[j].status # "none"
    /\ jobs' = request_stop(jobs, j)
    /\ hist' = [hist EXCEPT ![j].stop_mid = @ \/ (~jobs[j].stop_requested /\ MidRun(j)),
                             ![j].late_stop = @ \/ jobs[j].status \in Terminal,
                             ![j].stop_early = @ \/ pc[j] \in BeforeDispatch]
    /\ UNCHANGED <<scn, held, http_error, wvars, threads, pc, ret, stop_flag, cb_raised, nurls, submitted, yielded,
                   completed_count, units, stats, seen_urls, store>>

\* progress_cb of _run wrapped by report_progress of the pipeline: the callback
\* raises JobStopRequested when the job's stop is requested, and then
\* report_progress sets the run's stop flag; else the update is merged.
Raises(j) == should_stop(jobs, j)

Report(j, data) ==
    /\ jobs' = IF Raises(j) THEN jobs ELSE update_progress(jobs, j, data)
    /\ stop_flag' = IF Raises(j) THEN [stop_flag EXCEPT ![j] = TRUE] ELSE stop_flag
    /\ cb_raised' = [cb_raised EXCEPT ![j] = @ \/ Raises(j)]

\* _run after the pipeline returned or raised
WorkerMark(j) ==
    /\ pc[j] = "returned"
    /\ jobs' = IF ret[j].kind = "raise"
               THEN IF ret[j].type = "JobStopRequested"
                    THEN update_job(jobs, j, [status |-> "stopped",
                                              error |-> "Stopped by user"])
                    ELSE mark_failed(jobs, j, ret[j].type \o ": " \o ret[j].error)
               ELSE mark_completed(jobs, j, ret[j].kind)
    /\ pc' = [pc EXCEPT ![j] = "finishing"]
    /\ UNCHANGED <<scn, held, http_error, wvars, threads, ret, stop_flag, cb_raised, nurls, submitted, yielded, completed_count,
                   units, stats, seen_urls, store, hist>>

\* _run that ends without removing the thread's entry
WorkerExit_keeping(j) ==
    /\ pc[j] = "finishing"
    /\ pc' = [pc EXCEPT ![j] = "exited"]
    /\ UNCHANGED <<scn, held, http_error, wvars, jobs, threads, ret, stop_flag, cb_raised, nurls, submitted,
                   yielded, completed_count, units, stats, seen_urls, store, hist>>

\* _run, finally: the thread's entry is removed and the thread ends
WorkerExit(j) ==
    /\ pc[j] = "finishing"
    /\ threads' = threads \ {j}
    /\ pc' = [pc EXCEPT ![j] = "exited"]
    /\ UNCHANGED <<scn, held, http_error, wvars, jobs, ret, stop_flag, cb_raised, nurls, submitted, yielded, completed_count,
                   units, stats, seen_urls, store, hist>>

(***************************************************************************)
(* Pipeline runner: true_streaming_pipeline                                *)
(***************************************************************************)
MAX_WORKERS == 5
BatchEvery == 5

\* the progress reports before the pool is used, in order: the position and
\* the "phase" it reports
Phases == << [at |-> "starting", phase |-> "starting"],
             [at |-> "setup", phase |-> "setup"],
             [at |-> "categories", phase |-> "categories"],
             [at |-> "partner", phase |-> "partner"],
             [at |-> "partner_db", phase |-> "partner"],
             [at |-> "partner_ready", phase |-> "partner"],
             [at |-> "discovery", phase |-> "discovery"],
             [at |-> "map", phase |-> ""],
             [at |-> "discovery_complete", phase |-> "discovery_complete"],
             [at |-> "urls_filtered", phase |-> "urls_filtered"],
             [at |-> "scraping", phase |-> "scraping"],
             [at |-> "workers_starting", phase |-> "workers_starting"],
             [at |-> "submit", phase |-> ""] >>

PhaseIndex(at) == CHOOSE i \in 1..Len(Phases) : Phases[i].at = at

ReportPositions == {Phases[i].at : i \in 1..Len(Phases)} \ {"map", "submit"}

StoppedEarly == [kind |-> "stopped_early", error |-> "Stopped"]

\* one of the reports before the pool is used: return "stopped" when the
\* callback raises
ReportPhase(j) ==
    /\ pc[j] \in ReportPositions
    /\ Report(j, [phase |-> Phases[PhaseIndex(pc[j])].phase])
    /\ IF Raises(j)
       THEN /\ ret' = [ret EXCEPT ![j] = StoppedEarly]
            /\ pc' = [pc EXCEPT ![j] = "returned"]
       ELSE /\ ret' = ret
            /\ pc' = [pc EXCEPT ![j] = Phases[PhaseIndex(pc[j]) + 1].at]
    /\ UNCHANGED <<scn, held, http_error, wvars, threads, nurls, submitted, yielded, completed_count, units, stats,
                   seen_urls, store, hist>>

\* the partner lookup raises: nothing in the pipeline catches it
PartnerLookupFails(j, e) ==
    /\ pc[j] = "partner_db"
    /\ ret' = [ret EXCEPT ![j] = [kind |-> "raise", type |-> e.type, error |-> e.msg]]
    /\ pc' = [pc EXCEPT ![j] = "returned"]
    /\ UNCHANGED <<scn, held, http_error, wvars, jobs, threads, stop_flag, cb_raised, nurls, submitted, yielded, completed_count,
                   units, stats, seen_urls, store, hist>>

\* client.map returns n addresses of the start address's TLD
Discover(j, n) ==
    /\ pc[j] = "map"
    /\ n <= scn.urls
    /\ nurls' = [nurls EXCEPT ![j] = n]
    /\ pc' = [pc EXCEPT ![j] = "discovery_complete"]
    /\ UNCHANGED <<scn, held, http_error, wvars, jobs, threads, ret, stop_flag, cb_raised, submitted, yielded, completed_count,
                   units, stats, seen_urls, store, hist>>

\* client.map raises: reported (a raising callback is swallowed) and returned
\* as a result
DiscoverFails(j, e) ==
    /\ pc[j] = "map"
    /\ Report(j, [phase |-> "error", error_type |-> e.type])
    /\ ret' = [ret EXCEPT ![j] = [kind |-> "discovery_failed",
                                  error |-> "URL discovery failed: " \o e.msg]]
    /\ pc' = [pc EXCEPT ![j] = "returned"]
    /\ UNCHANGED <<scn, held, http_error, wvars, threads, nurls, submitted, yielded, completed_count, units, stats,
                   seen_urls, store, hist>>

NewUnit == [pc |-> "pending", left |-> 0, idx |-> 0, cur |-> <<>>, resp |-> <<>>,
            read |-> <<>>, sec |-> <<>>, reg |-> -1, after |-> ""]

\* one round of the submit loop: the end of the addresses and the stop check
Submit(j) ==
    /\ pc[j] = "submit"
    /\ pc' = [pc EXCEPT ![j] = IF submitted[j] = nurls[j] \/ stop_flag[j]
                               THEN "all_submitted" ELSE "url_submitted"]
    /\ UNCHANGED <<scn, held, http_error, wvars, jobs, threads, ret, stop_flag, cb_raised, nurls,
                   submitted, yielded, completed_count, units, stats, seen_urls, store, hist>>

\* one round of the submit loop: the report before the address is submitted;
\* a raising callback ends the loop
SubmitReport(j) ==
    /\ pc[j] = "url_submitted"
    /\ Report(j, [phase |-> "url_submitted"])
    /\ pc' = [pc EXCEPT ![j] = IF Raises(j) THEN "all_submitted" ELSE "submitting"]
    /\ UNCHANGED <<scn, held, http_error, wvars, threads, ret, nurls, submitted, yielded,
                   completed_count, units, stats, seen_urls, store, hist>>

\* one round of the submit loop: executor.submit; late_submit is history: the
\* units submitted while the stop flag was set
SubmitUrl(j) ==
    /\ pc[j] = "submitting"
    /\ submitted' = [submitted EXCEPT ![j] = @ + 1]
    /\ units' = [units EXCEPT ![j] =
                    [u \in 1..(submitted[j] + 1) |->
                        IF u <= submitted[j] THEN @[u] ELSE NewUnit]]
    /\ hist' = [hist EXCEPT ![j].late_submit =
                    IF stop_flag[j] THEN @ \cup {submitted[j] + 1} ELSE @]
    /\ pc' = [pc EXCEPT ![j] = "submit"]
    /\ UNCHANGED <<scn, held, http_error, wvars, jobs, threads, ret, stop_flag, cb_raised, nurls,
                   yielded, completed_count, stats, seen_urls, store>>

\* the report after the submit loop; a raising callback sets the stop flag
AllSubmitted(j) ==
    /\ pc[j] = "all_submitted"
    /\ Report(j, [phase |-> "all_urls_submitted"])
    /\ pc' = [pc EXCEPT ![j] = "wait"]
    /\ UNCHANGED <<scn, held, http_error, wvars, threads, ret, nurls, submitted, yielded, completed_count, units,
                   stats, seen_urls, store, hist>>

\* one round of the join loop: as_completed hands over a finished future
WaitNext(j, u) ==
    /\ pc[j] = "wait"
    /\ u \in DOMAIN units[j] \ yielded[j]
    /\ units[j][u].pc \in UnitDone
    /\ yielded' = [yielded EXCEPT ![j] = @ \cup {u}]
    /\ IF stop_flag[j]
       THEN /\ pc' = [pc EXCEPT ![j] = "finally"]
            /\ UNCHANGED <<jobs, stop_flag, cb_raised, completed_count>>
       ELSE /\ completed_count' = [completed_count EXCEPT ![j] = @ + 1]
            /\ CASE units[j][u].pc = "ok" ->
                      IF (completed_count[j] + 1) % BatchEvery = 0
                      THEN /\ Report(j, [phase |-> "batch_progress"])
                           /\ pc' = IF Raises(j) THEN [pc EXCEPT ![j] = "finally"] ELSE pc
                      ELSE UNCHANGED <<jobs, stop_flag, cb_raised, pc>>
                 [] units[j][u].pc = "stop" ->
                      /\ stop_flag' = [stop_flag EXCEPT ![j] = TRUE]
                      /\ cb_raised' = cb_raised
                      /\ pc' = [pc EXCEPT ![j] = "finally"]
                      /\ jobs' = jobs
                 [] OTHER ->
                      /\ Report(j, [phase |-> "worker_error"])
                      /\ pc' = pc
    /\ UNCHANGED <<scn, held, http_error, wvars, threads, ret, nurls, submitted, units, stats, seen_urls, store, hist>>

\* as_completed is exhausted
WaitDone(j) ==
    /\ pc[j] = "wait"
    /\ yielded[j] = DOMAIN units[j]
    /\ pc' = [pc EXCEPT ![j] = "finally"]
    /\ UNCHANGED <<scn, held, http_error, wvars, jobs, threads, ret, stop_flag, cb_raised, nurls, submitted, yielded,
                   completed_count, units, stats, seen_urls, store, hist>>

\* finally: pending futures are cancelled, the pool is shut down without
\* waiting; then the last report (a raising callback is swallowed) and the
\* result
RunnerReturn(j) ==
    /\ pc[j] = "finally"
    /\ units' = [units EXCEPT ![j] =
                    [u \in DOMAIN @ |->
                        IF @[u].pc = "pending" THEN [@[u] EXCEPT !.pc = "cancelled"]
                        ELSE @[u]]]
    /\ Report(j, [phase |-> IF stop_flag[j] THEN "stopped" ELSE "completed"])
    /\ ret' = [ret EXCEPT ![j] = [kind |-> IF stop_flag[j] THEN "stopped" ELSE "success",
                                  error |-> ""]]
    /\ pc' = [pc EXCEPT ![j] = "returned"]
    /\ UNCHANGED <<scn, held, http_error, wvars, threads, nurls, submitted, yielded, completed_count, stats,
                   seen_urls, store, hist>>


(***************************************************************************)
(* Fetch-and-process unit: scrape_and_process_url                          *)
(***************************************************************************)
Running(j) == {u \in DOMAIN units[j] : units[j][u].pc \notin UnitDone \cup {"pending"}}

\* the counters of the progress update after a record, in the order in which
\* the update reads them from the statistics, each read on its own and
\* without the statistics lock
SnapshotKeys == <<"processed", "eligible", "not_eligible", "scraped">>

\* the progress update built from the values read
Snapshot(read) == [k \in {SnapshotKeys[i] : i \in 1..Len(SnapshotKeys)} |->
                      read[CHOOSE i \in 1..Len(SnapshotKeys) : SnapshotKeys[i] = k]]

\* the position after one candidate is dealt with
NextPc(left) == IF left = 0 THEN "ok" ELSE "loop"

SetUnit(j, u, unit) == units' = [units EXCEPT ![j][u] = unit]

\* the handler of  except Exception : the error is reported through the
\* callback, whose own exception leaves the unit
UnitFails(j, u) ==
    /\ Report(j, [error_type |-> "Exception"])
    /\ SetUnit(j, u, [units[j][u] EXCEPT !.pc = IF Raises(j) THEN "exc" ELSE "ok",
                                         !.cur = <<>>, !.resp = <<>>])

\* a pool worker takes the unit and goes to the fetch without a stop check
UnitStart_unchecked(j, u) ==
    /\ u \in DOMAIN units[j]
    /\ units[j][u].pc = "pending"
    /\ Cardinality(Running(j)) < MAX_WORKERS
    /\ SetUnit(j, u, [units[j][u] EXCEPT !.pc = "fetch"])
    /\ UNCHANGED <<scn, held, http_error, wvars, jobs, threads, pc, ret, stop_flag, cb_raised, nurls,
                   submitted, yielded, completed_count, stats, seen_urls, store, hist>>

\* a pool worker takes the unit: the stop checks before the fetch
UnitStart(j, u) ==
    /\ u \in DOMAIN units[j]
    /\ units[j][u].pc = "pending"
    /\ Cardinality(Running(j)) < MAX_WORKERS
    /\ SetUnit(j, u, [units[j][u] EXCEPT !.pc = IF stop_flag[j] THEN "stop" ELSE "fetch"])
    /\ UNCHANGED <<scn, held, http_error, wvars, jobs, threads, pc, ret, stop_flag, cb_raised, nurls, submitted, yielded,
                   completed_count, stats, seen_urls, store, hist>>

\* client.scrape returns n candidate records
UnitFetch(j, u, n) ==
    /\ u \in DOMAIN units[j]
    /\ units[j][u].pc = "fetch"
    /\ n <= scn.prods
    /\ SetUnit(j, u, [units[j][u] EXCEPT !.pc = NextPc(n), !.left = n])
    /\ UNCHANGED <<scn, held, http_error, wvars, jobs, threads, pc, ret, stop_flag, cb_raised, nurls, submitted, yielded,
                   completed_count, stats, seen_urls, store, hist>>

\* client.scrape raises, and the failure is taken for the stop signal
UnitFetchFails_stops(j, u) ==
    /\ u \in DOMAIN units[j]
    /\ units[j][u].pc = "fetch"
    /\ SetUnit(j, u, [units[j][u] EXCEPT !.pc = "stop"])
    /\ hist' = [hist EXCEPT ![j].fetch_failed = @ \cup {u}]
    /\ UNCHANGED <<scn, held, http_error, wvars, jobs, stop_flag, cb_raised, threads, pc, ret, nurls, submitted, yielded,
                   completed_count, stats, seen_urls, store>>

\* client.scrape raises
UnitFetchFails(j, u) ==
    /\ u \in DOMAIN units[j]
    /\ units[j][u].pc = "fetch"
    /\ UnitFails(j, u)
    /\ hist' = [hist EXCEPT ![j].fetch_failed = @ \cup {u}]
    /\ UNCHANGED <<scn, held, http_error, wvars, threads, pc, ret, nurls, submitted, yielded, completed_count, stats,
                   seen_urls, store>>

\* the checks made on one candidate, with a Seen-Set that is tested but
\* into which no address is inserted
Verdict_unrecorded(j, u, c) ==
    LET product_url_raw == IF c.product_url \in {None, <<>>} THEN PageUrl(u)
                           ELSE c.product_url
        product_url == normalize_url(product_url_raw)
        canon == canonical_url(product_url)
        price == parse_price(c.price)
        currency == normalize_currency(c.currency)
    IN  IF c.product_name \in {None, <<>>} THEN [v |-> "invalid", seen |-> {}]
        ELSE IF ~match_product_to_selected_categories(
                    c.product_name, c.category, jobs[j].selected_categories)
        THEN [v |-> "filtered_out", seen |-> {}]
        ELSE IF product_url = None THEN [v |-> "invalid", seen |-> {}]
        ELSE IF canon \in seen_urls[j] THEN [v |-> "duplicates", seen |-> {}]
        ELSE IF price = NoPrice \/ price.v < 0 THEN [v |-> "invalid", seen |-> {}]
        ELSE IF currency \notin ALLOWED_CURRENCIES THEN [v |-> "invalid", seen |-> {}]
        ELSE [v |-> "valid", seen |-> {},
              row |-> [product_name |-> Strip(c.product_name), product_url |-> canon,
                       price |-> price.v, currency |-> currency, raw |-> c]]

\* the checks made on one candidate, with one Seen-Set for all the runs of
\* the process
Verdict_shared(j, u, c) ==
    LET product_url_raw == IF c.product_url \in {None, <<>>} THEN PageUrl(u)
                           ELSE c.product_url
        product_url == normalize_url(product_url_raw)
        canon == canonical_url(product_url)
        price == parse_price(c.price)
        currency == normalize_currency(c.currency)
    IN  IF c.product_name \in {None, <<>>} THEN [v |-> "invalid", seen |-> {}]
        ELSE IF ~match_product_to_selected_categories(
                    c.product_name, c.category, jobs[j].selected_categories)
        THEN [v |-> "filtered_out", seen |-> {}]
        ELSE IF product_url = None THEN [v |-> "invalid", seen |-> {}]
        ELSE IF canon \in UNION {seen_urls[k] : k \in JobIds}
        THEN [v |-> "duplicates", seen |-> {}]
        ELSE IF price = NoPrice \/ price.v < 0 THEN [v |-> "invalid", seen |-> {canon}]
        ELSE IF currency \notin ALLOWED_CURRENCIES THEN [v |-> "invalid", seen |-> {canon}]
        ELSE [v |-> "valid", seen |-> {canon},
              row |-> [product_name |-> Strip(c.product_name), product_url |-> canon,
                       price |-> price.v, currency |-> currency, raw |-> c]]

\* the outcome of the checks made on one candidate before it is saved
Verdict(j, u, c) ==
    LET product_url_raw == IF c.product_url \in {None, <<>>} THEN PageUrl(u)
                           ELSE c.product_url
        product_url == normalize_url(product_url_raw)
        canon == canonical_url(product_url)
        price == parse_price(c.price)
        currency == normalize_currency(c.currency)
    IN  IF c.product_name \in {None, <<>>} THEN [v |-> "invalid", seen |-> {}]
        ELSE IF ~match_product_to_selected_categories(
                    c.product_name, c.category, jobs[j].selected_categories)
        THEN [v |-> "filtered_out", seen |-> {}]
        ELSE IF product_url = None THEN [v |-> "invalid", seen |-> {}]
        ELSE IF canon \in seen_urls[j] THEN [v |-> "duplicates", seen |-> {}]
        ELSE IF price = NoPrice \/ price.v < 0 THEN [v |-> "invalid", seen |-> {canon}]
        ELSE IF currency \notin ALLOWED_CURRENCIES THEN [v |-> "invalid", seen |-> {canon}]
        ELSE [v |-> "valid", seen |-> {canon},
              row |-> [product_name |-> Strip(c.product_name), product_url |-> canon,
                       price |-> price.v, currency |-> currency, raw |-> c]]

\* history: the candidate passes every validation check of the loop (name,
\* category filter, address, price, currency), whatever the order of the
\* checks and the deduplication
PassesValidation(j, u, c) ==
    /\ c.product_name \notin {None, <<>>}
    /\ match_product_to_selected_categories(
           c.product_name, c.category, jobs[j].selected_categories)
    /\ normalize_url(IF c.product_url \in {None, <<>>} THEN PageUrl(u)
                     ELSE c.product_url) # None
    /\ parse_price(c.price) # NoPrice
    /\ normalize_currency(c.currency) \in ALLOWED_CURRENCIES

\* one round of the candidate loop up to the verdict on the candidate
UnitExamine(j, u, c) ==
    /\ u \in DOMAIN units[j]
    /\ units[j][u].pc = "loop"
    /\ c \in scn.cands
    /\ IF stop_flag[j]
       THEN /\ SetUnit(j, u, [units[j][u] EXCEPT !.pc = "stop"])
            /\ UNCHANGED <<stats, seen_urls, hist>>
       ELSE LET r == Verdict(j, u, c)
                left == units[j][u].left - 1
            IN  /\ seen_urls' = [seen_urls EXCEPT ![j] = @ \cup r.seen]
                /\ stats' = [stats EXCEPT ![j] =
                                IF r.v = "valid" THEN [@ EXCEPT !.scraped = @ + 1]
                                ELSE [@ EXCEPT !.scraped = @ + 1, ![r.v] = @ + 1]]
                /\ hist' = [hist EXCEPT ![j].validated =
                                IF PassesValidation(j, u, c) THEN @ + 1 ELSE @]
                /\ SetUnit(j, u, IF r.v = "valid"
                                 THEN [units[j][u] EXCEPT !.pc = "save", !.left = left,
                                                          !.idx = @ + 1, !.cur = r.row]
                                 ELSE [units[j][u] EXCEPT !.pc = NextPc(left),
                                                          !.left = left, !.idx = @ + 1])
    /\ UNCHANGED <<scn, held, http_error, wvars, jobs, threads, pc, ret, stop_flag, cb_raised, nurls, submitted, yielded,
                   completed_count, store>>

RowOf(j, u) == [job |-> j, unit |-> u, idx |-> units[j][u].idx]

\* a product row with its insurance package; failure is history: which
\* collaborator failed for the record ("" when none did)
Row(j, u, status, package, reason, failure) ==
    [key |-> RowOf(j, u), product |-> units[j][u].cur, processing_status |-> status,
     package |-> package, reason |-> reason, failure |-> failure]

NewRow(j, u) == Row(j, u, "processing", "none", "", "")

\* the product row is saved, after the stop check before the save
UnitSave(j, u) ==
    /\ u \in DOMAIN units[j]
    /\ units[j][u].pc = "save_go"
    /\ SetUnit(j, u, [units[j][u] EXCEPT !.pc = "classify"])
    /\ store' = store \cup {NewRow(j, u)}
    /\ UNCHANGED <<scn, held, http_error, wvars, jobs, threads, pc, ret, stop_flag, cb_raised, nurls, submitted, yielded,
                   completed_count, stats, seen_urls, hist>>

\* the package row is written, the product is completed and counted
Finish(j, u, eligible, reason, failure) ==
    /\ store' = (store \ {NewRow(j, u)})
                  \cup {Row(j, u, "completed",
                            IF eligible THEN "eligible" ELSE "not_eligible", reason,
                            failure)}
    /\ stats' = [stats EXCEPT ![j] =
                    [@ EXCEPT !.processed = @ + 1,
                              ![IF eligible THEN "eligible" ELSE "not_eligible"] = @ + 1]]
    /\ SetUnit(j, u, [units[j][u] EXCEPT !.pc = "read", !.cur = <<>>, !.resp = <<>>])

ClassifyOutcomes == {"eligible", "not_eligible", "no_reason"}

\* classify_product returns, after the stop check before the classification
UnitClassify(j, u, outcome) ==
    /\ u \in DOMAIN units[j]
    /\ units[j][u].pc = "classify_go"
    /\ IF outcome = "eligible"
       THEN /\ SetUnit(j, u, [units[j][u] EXCEPT !.pc = "pricing"])
            /\ UNCHANGED <<stats, store>>
       ELSE Finish(j, u, FALSE, IF outcome = "no_reason" THEN "Not eligible"
                                ELSE "classifier reason", "")
    /\ UNCHANGED <<scn, held, http_error, wvars, jobs, threads, pc, ret, stop_flag, cb_raised, nurls, submitted, yielded,
                   completed_count, seen_urls, hist>>

\* classify_product raises: the unit's handler
UnitClassifyFails(j, u) ==
    /\ u \in DOMAIN units[j]
    /\ units[j][u].pc = "classify_go"
    /\ store' = (store \ {NewRow(j, u)})
                  \cup {Row(j, u, "processing", "none", "", "classification")}
    /\ UnitFails(j, u)
    /\ UNCHANGED <<scn, held, http_error, wvars, threads, pc, ret, nurls, submitted, yielded, completed_count, stats,
                   seen_urls, hist>>

PricingOutcomes == {"ok", "error", "raise"}
AssurmaxLimit == 500000

\* the standard pricing, after the stop check before the pricing; assurmax
\* tells whether the market is UAE and the classification names electronics
UnitPricing(j, u, outcome, assurmax) ==
    /\ u \in DOMAIN units[j]
    /\ units[j][u].pc = "pricing_go"
    /\ IF outcome = "raise"
       THEN Finish(j, u, FALSE, "Pricing failed: error", "pricing")
       ELSE IF assurmax /\ units[j][u].cur.price <= AssurmaxLimit
       THEN /\ SetUnit(j, u, [units[j][u] EXCEPT !.pc = "assurmax",
                                                 !.resp = outcome])
            /\ UNCHANGED <<stats, store>>
       ELSE Finish(j, u, outcome = "ok", IF outcome = "ok" THEN "" ELSE "pricing error", "")
    /\ UNCHANGED <<scn, held, http_error, wvars, jobs, threads, pc, ret, stop_flag, cb_raised, nurls, submitted, yielded,
                   completed_count, seen_urls, hist>>

\* the ASSURMAX pricing, after the stop check before it
UnitAssurmax(j, u, outcome) ==
    /\ u \in DOMAIN units[j]
    /\ units[j][u].pc = "assurmax_go"
    /\ IF outcome = "raise"
       THEN Finish(j, u, FALSE, "Pricing failed: error", "pricing")
       ELSE Finish(j, u, units[j][u].resp = "ok",
                   IF units[j][u].resp = "ok" THEN "" ELSE "pricing error", "")
    /\ UNCHANGED <<scn, held, http_error, wvars, jobs, threads, pc, ret, stop_flag, cb_raised, nurls, submitted, yielded,
                   completed_count, seen_urls, hist>>

\* the positions of a unit before a stop check that a blocking call follows,
\* and the position after the check
Checkpoints == {"save", "classify", "pricing", "assurmax"}
PassedCheck(at) == CASE at = "save" -> "save_go" [] at = "classify" -> "classify_go"
                     [] at = "pricing" -> "pricing_go" [] at = "assurmax" -> "assurmax_go"

\* a stop check of the candidate loop: the stop signal leaves the unit,
\* except before the ASSURMAX pricing, where the handler of the pricing
\* catches it like any failure and the record is saved ineligible
UnitCheckpoint(j, u) ==
    /\ u \in DOMAIN units[j]
    /\ units[j][u].pc \in Checkpoints
    /\ IF ~stop_flag[j]
       THEN /\ SetUnit(j, u, [units[j][u] EXCEPT !.pc = PassedCheck(@)])
            /\ UNCHANGED <<stats, store, hist>>
       ELSE IF units[j][u].pc = "assurmax"
       THEN /\ Finish(j, u, FALSE, "Pricing failed: Stop requested before ASSURMAX", "")
            /\ hist' = [hist EXCEPT ![j].saw_stop = @ \cup {u}]
       ELSE /\ SetUnit(j, u, [units[j][u] EXCEPT !.pc = "stop", !.cur = <<>>])
            /\ UNCHANGED <<stats, store, hist>>
    /\ UNCHANGED <<scn, held, http_error, wvars, jobs, threads, pc, ret, stop_flag, cb_raised, nurls, submitted, yielded,
                   completed_count, seen_urls>>

\* the progress update after a record is built: one counter is read from the
\* statistics
UnitRead(j, u) ==
    /\ u \in DOMAIN units[j]
    /\ units[j][u].pc = "read"
    /\ LET read == Append(units[j][u].read,
                          stats[j][SnapshotKeys[Len(units[j][u].read) + 1]])
       IN  SetUnit(j, u, [units[j][u] EXCEPT
                             !.read = read,
                             !.pc = IF Len(read) = Len(SnapshotKeys) THEN "report" ELSE "read"])
    /\ UNCHANGED <<scn, held, http_error, wvars, jobs, threads, pc, ret, stop_flag, cb_raised, nurls, submitted,
                   yielded, completed_count, stats, seen_urls, store, hist>>

\* the progress update after a record; the callback's exception is caught by
\* the unit's handler, whose own report raises again and leaves the unit
UnitReport(j, u) ==
    /\ u \in DOMAIN units[j]
    /\ units[j][u].pc = "report"
    /\ Report(j, Snapshot(units[j][u].read))
    /\ SetUnit(j, u, [units[j][u] EXCEPT !.pc = IF Raises(j) THEN "exc"
                                                ELSE NextPc(units[j][u].left),
                                         !.read = <<>>])
    /\ UNCHANGED <<scn, held, http_error, wvars, threads, pc, ret, nurls, submitted, yielded, completed_count, stats,
                   seen_urls, store, hist>>

(***************************************************************************)
(* The sections of the candidate loop under stats_lock, at the grain of    *)
(* one load and one store of a counter:  with stats_lock: stats[k] += 1    *)
(***************************************************************************)
\* stats_lock: the units of run j that hold the lock (inside a with block)
stats_lock(j) == {u \in DOMAIN units[j] : units[j][u].pc = "locked"}

\* history: one more event of kind k in run j
Event(j, k) == hist' = [hist EXCEPT ![j].events[k] = @ + 1]

\* the unit comes to a  with stats_lock  block that increments the counters
\* sec and goes on at position after
Section(j, u, unit, sec, after) ==
    SetUnit(j, u, [unit EXCEPT !.pc = "want", !.sec = sec, !.after = after])

\* stats_lock.__enter__ by a lock that excludes nobody
SectionAcquire_unlocked(j, u) ==
    /\ u \in DOMAIN units[j]
    /\ units[j][u].pc = "want"
    /\ SetUnit(j, u, [units[j][u] EXCEPT !.pc = "locked"])
    /\ UNCHANGED <<scn, held, http_error, wvars, jobs, threads, pc, ret, stop_flag, cb_raised, nurls,
                   submitted, yielded, completed_count, stats, seen_urls, store, hist>>

\* stats_lock.__enter__: the unit waits until no unit holds the lock
SectionAcquire(j, u) ==
    /\ u \in DOMAIN units[j]
    /\ units[j][u].pc = "want"
    /\ stats_lock(j) = {}
    /\ SetUnit(j, u, [units[j][u] EXCEPT !.pc = "locked"])
    /\ UNCHANGED <<scn, held, http_error, wvars, jobs, threads, pc, ret, stop_flag, cb_raised, nurls,
                   submitted, yielded, completed_count, stats, seen_urls, store, hist>>

\* stats[k] += 1, first half: the counter is read
SectionLoad(j, u) ==
    /\ u \in DOMAIN units[j]
    /\ units[j][u].pc = "locked"
    /\ units[j][u].sec # <<>> /\ Head(units[j][u].sec) # "seen_urls"
    /\ units[j][u].reg = -1
    /\ SetUnit(j, u, [units[j][u] EXCEPT !.reg = stats[j][Head(units[j][u].sec)]])
    /\ UNCHANGED <<scn, held, http_error, wvars, jobs, threads, pc, ret, stop_flag, cb_raised, nurls,
                   submitted, yielded, completed_count, stats, seen_urls, store, hist>>

\* stats[k] += 1, second half: the value read plus one is written
SectionStore(j, u) ==
    /\ u \in DOMAIN units[j]
    /\ units[j][u].pc = "locked"
    /\ units[j][u].reg # -1
    /\ stats' = [stats EXCEPT ![j][Head(units[j][u].sec)] = units[j][u].reg + 1]
    /\ SetUnit(j, u, [units[j][u] EXCEPT !.sec = Tail(@), !.reg = -1])
    /\ UNCHANGED <<scn, held, http_error, wvars, jobs, threads, pc, ret, stop_flag, cb_raised, nurls,
                   submitted, yielded, completed_count, seen_urls, store, hist>>

\* the section of the Seen-Set: the canonical address is tested, and counted
\* duplicate or inserted
SectionSeen(j, u) ==
    /\ u \in DOMAIN units[j]
    /\ units[j][u].pc = "locked"
    /\ units[j][u].sec # <<>> /\ Head(units[j][u].sec) = "seen_urls"
    /\ LET c == units[j][u].cur
           canon == canonical_url(normalize_url(
                        IF c.product_url \in {None, <<>>} THEN PageUrl(u)
                        ELSE c.product_url))
       IN  IF canon \in seen_urls[j]
           THEN /\ SetUnit(j, u, [units[j][u] EXCEPT
                                     !.sec = <<"duplicates">>,
                                     !.after = NextPc(units[j][u].left)])
                /\ Event(j, "duplicates")
                /\ UNCHANGED seen_urls
           ELSE /\ seen_urls' = [seen_urls EXCEPT ![j] = @ \cup {canon}]
                /\ SetUnit(j, u, [units[j][u] EXCEPT !.sec = <<>>])
                /\ UNCHANGED hist
    /\ UNCHANGED <<scn, held, http_error, wvars, jobs, threads, pc, ret, stop_flag, cb_raised, nurls,
                   submitted, yielded, completed_count, stats, store>>

\* stats_lock.__exit__
SectionRelease(j, u) ==
    /\ u \in DOMAIN units[j]
    /\ units[j][u].pc = "locked"
    /\ units[j][u].sec = <<>> /\ units[j][u].reg = -1
    /\ SetUnit(j, u, [units[j][u] EXCEPT !.pc = units[j][u].after, !.after = ""])
    /\ UNCHANGED <<scn, held, http_error, wvars, jobs, threads, pc, ret, stop_flag, cb_raised, nurls,
                   submitted, yielded, completed_count, stats, seen_urls, store, hist>>

\* one round of the candidate loop begins: the stop check, and the candidate
\* is counted scraped
CandidateScraped(j, u, c) ==
    /\ u \in DOMAIN units[j]
    /\ units[j][u].pc = "loop"
    /\ c \in scn.cands
    /\ IF stop_flag[j]
       THEN /\ SetUnit(j, u, [units[j][u] EXCEPT !.pc = "stop"])
            /\ UNCHANGED hist
       ELSE /\ Section(j, u, [units[j][u] EXCEPT !.cur = c, !.left = @ - 1, !.idx = @ + 1],
                       <<"scraped">>, "checks")
            /\ Event(j, "scraped")
    /\ UNCHANGED <<scn, held, http_error, wvars, jobs, threads, pc, ret, stop_flag, cb_raised, nurls,
                   submitted, yielded, completed_count, stats, seen_urls, store>>

\* the checks before the Seen-Set: the name, the category filter, the address
CandidateChecks(j, u) ==
    /\ u \in DOMAIN units[j]
    /\ units[j][u].pc = "checks"
    /\ LET c == units[j][u].cur
           next == NextPc(units[j][u].left)
       IN  IF c.product_name \in {None, <<>>}
           THEN Section(j, u, units[j][u], <<"invalid">>, next) /\ Event(j, "invalid")
           ELSE IF ~match_product_to_selected_categories(
                       c.product_name, c.category, jobs[j].selected_categories)
           THEN Section(j, u, units[j][u], <<"filtered_out">>, next)
                /\ Event(j, "filtered_out")
           ELSE IF normalize_url(IF c.product_url \in {None, <<>>} THEN PageUrl(u)
                                 ELSE c.product_url) = None
           THEN Section(j, u, units[j][u], <<"invalid">>, next) /\ Event(j, "invalid")
           ELSE Section(j, u, units[j][u], <<"seen_urls">>, "validate") /\ UNCHANGED hist
    /\ UNCHANGED <<scn, held, http_error, wvars, jobs, threads, pc, ret, stop_flag, cb_raised, nurls,
                   submitted, yielded, completed_count, stats, seen_urls, store>>

\* the checks after the Seen-Set: the price and the currency
CandidateValidate(j, u) ==
    /\ u \in DOMAIN units[j]
    /\ units[j][u].pc = "validate"
    /\ LET c == units[j][u].cur
       IN  IF \/ parse_price(c.price) = NoPrice
              \/ normalize_currency(c.currency) \notin ALLOWED_CURRENCIES
           THEN /\ Section(j, u, units[j][u], <<"invalid">>, NextPc(units[j][u].left))
                /\ Event(j, "invalid")
           ELSE /\ SetUnit(j, u, [units[j][u] EXCEPT !.pc = "enrich"])
                /\ UNCHANGED hist
    /\ UNCHANGED <<scn, held, http_error, wvars, jobs, threads, pc, ret, stop_flag, cb_raised, nurls,
                   submitted, yielded, completed_count, stats, seen_urls, store>>

\* the record is saved, classified and priced, with the outcome eligible or
\* not, and is counted; the progress update follows
CandidateProcessed(j, u, eligible) ==
    /\ u \in DOMAIN units[j]
    /\ units[j][u].pc = "enrich"
    /\ LET k == IF eligible THEN "eligible" ELSE "not_eligible"
       IN  /\ Section(j, u, [units[j][u] EXCEPT !.cur = <<>>], <<"processed", k>>, "read")
           /\ hist' = [hist EXCEPT ![j].events =
                          [@ EXCEPT !.processed = @ + 1, ![k] = @ + 1]]
    /\ UNCHANGED <<scn, held, http_error, wvars, jobs, threads, pc, ret, stop_flag, cb_raised, nurls,
                   submitted, yielded, completed_count, stats, seen_urls, store>>

(***************************************************************************)
(* Readers of the registry: GET /jobs/{id}/status                          *)
(***************************************************************************)
\* get_job: dict.get under the lock hands out the registry's own Job object,
\* so what the caller holds is the job as the registry has it now
get_job(js, job_id) == js[job_id]

HeldValue == get_job(jobs, held.job)

\* job_status: get_job (an unknown id gives 404 and nothing is held)
GetJob(j) ==
    /\ held = NoHandle
    /\ jobs[j].status # "none"
    /\ held' = [job |-> j, seen |-> get_job(jobs, j), asked |-> FALSE, active |-> FALSE]
    /\ UNCHANGED <<jobs, threads, runvars, scn, http_error, wvars>>

\* Thread.is_alive of the thread of job j: from start() until _run ends
is_alive(j) == pc[j] \notin {"none", "created", "marked", "exited"}

\* PipelineWorker.is_active
is_active(ts, j) == j \in ts /\ is_alive(j)

\* PipelineWorker.active_jobs
active_jobs(ts) == {j \in ts : is_alive(j)}

\* job_status: "active" of the answer, pipeline_worker.is_active
IsActive ==
    /\ held # NoHandle
    /\ ~held.asked
    /\ held' = [held EXCEPT !.asked = TRUE, !.active = is_active(threads, held.job)]
    /\ UNCHANGED <<jobs, threads, runvars, scn, http_error, wvars>>

\* job_status: the answer, built from the fields of the Job held and from
\* "active", is returned, and the Job is let go
Respond ==
    /\ held # NoHandle
    /\ held.asked
    /\ held' = NoHandle
    /\ UNCHANGED <<jobs, threads, runvars, scn, http_error, wvars>>

(***************************************************************************)
(* Refused requests of the job API: backend/server.py                      *)
(***************************************************************************)
HTTPException(op, j, status_code, detail) ==
    [op |-> op, job |-> j, status_code |-> status_code, detail |-> detail]

\* the handler raises: the registry, the threads and the runs are untouched
Refuse(e) ==
    /\ http_error = NoError
    /\ http_error' = e
    /\ UNCHANGED <<jobs, threads, runvars, scn, held, wvars>>

\* POST /jobs with a start address that fails the test
CreateJobRejected(start_url) ==
    /\ start_url \in scn.start_urls
    /\ ~HasScheme(start_url)
    /\ Refuse(HTTPException("create_job", 0, 400, "Invalid URL"))

\* GET /jobs/{id}, GET /jobs/{id}/status and POST /jobs/{id}/stop for an id
\* get_job finds no entry for
ApiOps == {"get_job", "job_status", "stop_job"}

JobNotFound(op, j) ==
    /\ op \in ApiOps
    /\ get_job(jobs, j) = NoJob
    /\ Refuse(HTTPException(op, j, 404, "Job not found"))

\* the client receives the error answer
ClientReads ==
    /\ http_error # NoError
    /\ http_error' = NoError
    /\ UNCHANGED <<jobs, threads, runvars, scn, held, wvars>>

(***************************************************************************)
(* Batched writer: scrapper/Scrapper.py, AsyncDatabaseInserter             *)
(***************************************************************************)
QueueMaxSize == 1000

\* normalize_currency of Scrapper.py: the second lookup, of the text as
\* written, finds nothing the first does not for the Latin keys
scrapper_normalize_currency(raw) ==
    IF raw = None \/ raw = <<>> THEN None
    ELSE IF CURRENCY_NORMALIZATION(Upper(Strip(raw))) # None
    THEN CURRENCY_NORMALIZATION(Upper(Strip(raw)))
    ELSE CURRENCY_NORMALIZATION(Strip(raw))

\* str.replace(old, new, 1) on a text that starts with old
ReplaceHead(s, old, new) == new \o SubSeq(s, Len(old) + 1, Len(s))

\* str.replace(old, new): every occurrence, from the left
RECURSIVE ReplaceAll(_, _, _)
ReplaceAll(s, old, new) ==
    IF Len(s) < Len(old) THEN s
    ELSE IF StartsWith(s, old)
    THEN new \o ReplaceAll(SubSeq(s, Len(old) + 1, Len(s)), old, new)
    ELSE <<Head(s)>> \o ReplaceAll(Tail(s), old, new)

\* normalize_url of Scrapper.py, which repairs a missing "://"
scrapper_normalize_url(url) ==
    IF url = None \/ url \in UnknownUrlText THEN None
    ELSE LET u == Strip(url)
             hasSep == \E i \in 1..(Len(u) - 2) : SubSeq(u, i, i + 2) = <<":", "/", "/">>
             httpswww == <<"h", "t", "t", "p", "s", "w", "w", "w", ".">>
             httpwww == <<"h", "t", "t", "p", "w", "w", "w", ".">>
             https == <<"h", "t", "t", "p", "s">>
             http == <<"h", "t", "t", "p">>
             www == <<"w", "w", "w", ".">>
             v == IF StartsWith(u, httpswww) \/ StartsWith(u, httpwww)
                  THEN ReplaceAll(ReplaceAll(u, httpswww, HttpsPrefix \o www),
                                  httpwww, HttpPrefix \o www)
                  ELSE IF StartsWith(u, https) /\ ~hasSep
                  THEN ReplaceHead(u, https, HttpsPrefix)
                  ELSE IF StartsWith(u, http) /\ ~hasSep
                  THEN ReplaceHead(u, http, HttpPrefix)
                  ELSE u
         IN  IF StartsWith(v, HttpPrefix) \/ StartsWith(v, HttpsPrefix) THEN v ELSE None

\* validate_product: Rejected for None, or the cleaned record
Rejected == [valid |-> FALSE]

validate_product(raw) ==
    IF raw.product_name \in {None, <<>>} THEN Rejected
    ELSE IF raw.product_url \in {None, <<>>} THEN Rejected
    ELSE IF scrapper_normalize_url(raw.product_url) = None THEN Rejected
    ELSE IF ~parse_price(raw.price).ok \/ parse_price(raw.price).v <= 0 THEN Rejected
    ELSE IF scrapper_normalize_currency(raw.currency) \notin ALLOWED_CURRENCIES THEN Rejected
    ELSE [valid |-> TRUE,
          product_name |-> Strip(raw.product_name),
          product_url |-> canonical_url(scrapper_normalize_url(raw.product_url)),
          price |-> parse_price(raw.price).v,
          currency |-> scrapper_normalize_currency(raw.currency)]

\* the raw records handed to add_product
WriterInputs ==
    { Cand(NameTV, UrlA, PriceText, AED),
      Cand(NameTV, UrlASlash, PriceText, AED),
      Cand(NameTV, UrlB, PriceText, AED),
      Cand(NameTV, <<"h", "t", "t", "p", "x", ".", "c", "/", "c">>, PriceText, AED),
      Cand(NameTV, UrlB, PriceFree, AED) }

\* add_product: counted, validated, tested against seen_urls and enqueued
\* with a fresh id; crawl_entire_site hands over every record and then
\* calls close(), in one thread
AddProduct(raw) ==
    /\ closer.calls = 0
    /\ wstats.total < MaxRecords
    /\ Len(product_queue) < QueueMaxSize
    /\ LET clean == validate_product(raw)
       IN  IF ~clean.valid
           THEN /\ wstats' = [wstats EXCEPT !.total = @ + 1, !.invalid = @ + 1]
                /\ whist' = [whist EXCEPT !.rejected = @ + 1]
                /\ UNCHANGED <<wseen, product_queue>>
           ELSE IF clean.product_url \in wseen
           THEN /\ wstats' = [wstats EXCEPT !.total = @ + 1, !.duplicates = @ + 1]
                /\ UNCHANGED <<wseen, product_queue, whist>>
           ELSE /\ wstats' = [wstats EXCEPT !.total = @ + 1]
                /\ wseen' = wseen \cup {clean.product_url}
                /\ product_queue' = Append(product_queue, wstats.total + 1)
                /\ whist' = [whist EXCEPT !.interleaved =
                                @ \/ writer.batch # <<>> \/ whist.flushed # {}]
    /\ UNCHANGED <<jobvars, stop_event, writer, table, closer>>

SeqToSet(q) == {q[i] : i \in 1..Len(q)}

\* _flush_batch that does not count the records whose own insert fails
FlushBatch_uncounted(batch, bulk_ok, failed) ==
    /\ table' = table \cup (IF bulk_ok THEN SeqToSet(batch) ELSE SeqToSet(batch) \ failed)
    /\ wstats' = IF bulk_ok THEN [wstats EXCEPT !.added = @ + Len(batch)]
                 ELSE [wstats EXCEPT
                          !.added = @ + Cardinality(SeqToSet(batch) \ failed)]
    /\ whist' = [whist EXCEPT !.flushes = Append(@, Len(batch)),
                              !.flushed = @ \cup SeqToSet(batch),
                              !.failed = IF bulk_ok THEN @
                                         ELSE @ \cup (SeqToSet(batch) \cap failed)]

\* _flush_batch: one bulk insert; when it fails, each record alone, and
\* failed are the records that cannot be inserted
FlushBatch(batch, bulk_ok, failed) ==
    /\ table' = table \cup (IF bulk_ok THEN SeqToSet(batch) ELSE SeqToSet(batch) \ failed)
    /\ wstats' = IF bulk_ok THEN [wstats EXCEPT !.added = @ + Len(batch)]
                 ELSE [wstats EXCEPT
                          !.added = @ + Cardinality(SeqToSet(batch) \ failed),
                          !.invalid = @ + Cardinality(SeqToSet(batch) \cap failed)]
    /\ whist' = [whist EXCEPT !.flushes = Append(@, Len(batch)),
                              !.flushed = @ \cup SeqToSet(batch),
                              !.failed = IF bulk_ok THEN @
                                         ELSE @ \cup (SeqToSet(batch) \cap failed)]

\* _writer_loop: the test of the while loop
WriterTest ==
    /\ writer.pc = "test"
    /\ writer' = [writer EXCEPT !.pc = IF ~stop_event \/ product_queue # <<>>
                                       THEN "get" ELSE "final"]
    /\ UNCHANGED <<jobvars, product_queue, stop_event, table, wstats, wseen, closer, whist>>

\* _writer_loop: the batch is full
BatchFull_late(batch) == Len(batch) > BatchSize

BatchFull(batch) == Len(batch) >= BatchSize

\* _writer_loop: get returns a record; the batch is flushed when it is full
WriterGet(bulk_ok, failed) ==
    /\ writer.pc = "get"
    /\ product_queue # <<>>
    /\ product_queue' = Tail(product_queue)
    /\ LET batch == Append(writer.batch, Head(product_queue))
       IN  IF BatchFull(batch)
           THEN /\ FlushBatch(batch, bulk_ok, failed)
                /\ failed \subseteq SeqToSet(batch)
                /\ bulk_ok => failed = {}
                /\ writer' = [pc |-> "test", batch |-> <<>>]
           ELSE /\ bulk_ok /\ failed = {}
                /\ writer' = [pc |-> "test", batch |-> batch]
                /\ UNCHANGED <<table, wstats, whist>>
    /\ UNCHANGED <<jobvars, stop_event, wseen, closer>>

\* _writer_loop whose handler of queue.Empty flushes the batch without
\* testing it
WriterEmpty_untested(bulk_ok, failed) ==
    /\ writer.pc = "get"
    /\ product_queue = <<>>
    /\ FlushBatch(writer.batch, bulk_ok, failed)
    /\ failed \subseteq SeqToSet(writer.batch)
    /\ bulk_ok => failed = {}
    /\ writer' = [pc |-> "test", batch |-> <<>>]
    /\ UNCHANGED <<jobvars, product_queue, stop_event, wseen, closer>>

\* _writer_loop: get times out on the empty queue; a pending batch is flushed
WriterEmpty(bulk_ok, failed) ==
    /\ writer.pc = "get"
    /\ product_queue = <<>>
    /\ IF writer.batch # <<>>
       THEN /\ FlushBatch(writer.batch, bulk_ok, failed)
            /\ failed \subseteq SeqToSet(writer.batch)
            /\ bulk_ok => failed = {}
       ELSE /\ bulk_ok /\ failed = {}
            /\ UNCHANGED <<table, wstats, whist>>
    /\ writer' = [pc |-> "test", batch |-> <<>>]
    /\ UNCHANGED <<jobvars, product_queue, stop_event, wseen, closer>>

\* _writer_loop: the final flush, and the thread ends
WriterFinal(bulk_ok, failed) ==
    /\ writer.pc = "final"
    /\ IF writer.batch # <<>>
       THEN /\ FlushBatch(writer.batch, bulk_ok, failed)
            /\ failed \subseteq SeqToSet(writer.batch)
            /\ bulk_ok => failed = {}
       ELSE /\ bulk_ok /\ failed = {}
            /\ UNCHANGED <<table, wstats, whist>>
    /\ writer' = [pc |-> "done", batch |-> <<>>]
    /\ UNCHANGED <<jobvars, product_queue, stop_event, wseen, closer>>

\* close() that flushes the pending batch itself
CloseSet_flushing ==
    /\ closer.pc \in {"idle", "returned"}
    /\ closer.calls < MaxCloses
    /\ stop_event' = TRUE
    /\ closer' = [closer EXCEPT !.pc = "joining", !.calls = @ + 1]
    /\ table' = table \cup SeqToSet(writer.batch)
    /\ wstats' = [wstats EXCEPT !.added = @ + Len(writer.batch)]
    /\ whist' = [whist EXCEPT !.flushes = IF writer.batch = <<>> THEN @
                                          ELSE Append(@, Len(writer.batch)),
                              !.flushed = @ \cup SeqToSet(writer.batch)]
    /\ UNCHANGED <<jobvars, product_queue, writer, wseen>>

\* close(): the stop event is set
CloseSet ==
    /\ closer.pc \in {"idle", "returned"}
    /\ closer.calls < MaxCloses
    /\ stop_event' = TRUE
    /\ closer' = [closer EXCEPT !.pc = "joining", !.calls = @ + 1]
    /\ whist' = IF closer.calls = 0
                THEN [whist EXCEPT !.at_close = SeqToSet(product_queue)
                                                  \cup SeqToSet(writer.batch) \cup @]
                ELSE whist
    /\ UNCHANGED <<jobvars, product_queue, writer, table, wstats, wseen>>

\* close(): join(timeout=30) returns because the writer thread has ended;
\* the caller then reads the statistics (get_stats), kept as history
CloseJoined ==
    /\ closer.pc = "joining"
    /\ writer.pc = "done"
    /\ closer' = [closer EXCEPT !.pc = "returned", !.returns = @ + 1]
    /\ whist' = [whist EXCEPT !.reported = wstats]
    /\ UNCHANGED <<jobvars, product_queue, stop_event, writer, table, wstats, wseen>>

\* close(): join(timeout=30) returns because the 30 seconds are over
CloseTimeout ==
    /\ closer.pc = "joining"
    /\ writer.pc # "done"
    /\ closer' = [closer EXCEPT !.pc = "returned", !.returns = @ + 1]
    /\ whist' = [whist EXCEPT !.reported = wstats]
    /\ UNCHANGED <<jobvars, product_queue, stop_event, writer, table, wstats, wseen>>

IdSets == SUBSET (1..MaxRecords)

NextWriter ==
    \/ \E raw \in WriterInputs : AddProduct(raw)
    \/ WriterTest
    \/ \E b \in BOOLEAN, f \in IdSets : WriterGet(b, f)
    \/ \E b \in BOOLEAN, f \in IdSets : WriterEmpty(b, f)
    \/ \E b \in BOOLEAN, f \in IdSets : WriterFinal(b, f)
    \/ CloseSet
    \/ CloseJoined
    \/ CloseTimeout

(***************************************************************************)
(* The system.                                                             *)
(***************************************************************************)
Next ==
    \E j \in JobIds :
        \/ \E s \in StartUrls, cats \in CategoryFilters : CreateJob(j, s, cats)
        \/ MarkRunning(j)
        \/ LaunchThread(j)
        \/ RequestStop(j)
        \/ WorkerMark(j)
        \/ WorkerExit(j)
        \/ ReportPhase(j)
        \/ \E e \in Exceptions : PartnerLookupFails(j, e)
        \/ \E n \in 0..MaxUrls : Discover(j, n)
        \/ \E e \in Exceptions : DiscoverFails(j, e)
        \/ Submit(j)
        \/ SubmitReport(j)
        \/ SubmitUrl(j)
        \/ AllSubmitted(j)
        \/ \E u \in 1..MaxUrls : WaitNext(j, u)
        \/ WaitDone(j)
        \/ RunnerReturn(j)
        \/ \E u \in 1..MaxUrls :
              \/ UnitStart(j, u)
              \/ \E n \in 0..MaxProducts : UnitFetch(j, u, n)
              \/ UnitFetchFails(j, u)
              \/ \E c \in Candidates : UnitExamine(j, u, c)
              \/ UnitCheckpoint(j, u)
              \/ UnitSave(j, u)
              \/ \E o \in ClassifyOutcomes : UnitClassify(j, u, o)
              \/ UnitClassifyFails(j, u)
              \/ \E o \in PricingOutcomes, a \in BOOLEAN : UnitPricing(j, u, o, a)
              \/ \E o \in PricingOutcomes : UnitAssurmax(j, u, o)
              \/ UnitRead(j, u)
              \/ UnitReport(j, u)

\* several jobs with small runs
Spec == Init /\ [][Next]_vars
\* one job whose run has several units
SpecRun == InitRun /\ [][Next]_vars
\* one job whose run has one unit with several candidates
SpecUnit == InitUnit /\ [][Next]_vars
\* the batched writer with its producer and the caller of close()
SpecWriter == InitWriter /\ [][NextWriter]_vars

NextClient ==
    \/ Next
    \/ \E j \in JobIds : GetJob(j)
    \/ IsActive
    \/ Respond

\* one job with a small run, and a reader of the registry
SpecClient == InitClient /\ [][NextClient]_vars

NextApi ==
    \/ Next
    \/ \E s \in StartUrls : CreateJobRejected(s)
    \/ \E op \in ApiOps, j \in JobIds : JobNotFound(op, j)
    \/ ClientReads

\* one job with a small run, and a client whose requests the API refuses
SpecApi == InitApi /\ [][NextApi]_vars

\* the steps of the request handler that starts job j, of the worker thread
\* of job j, and of unit u of its run
StartStep(j) == MarkRunning(j) \/ LaunchThread(j)

RunnerStep(j) ==
    \/ ReportPhase(j)
    \/ \E e \in Exceptions : PartnerLookupFails(j, e)
    \/ \E n \in 0..MaxUrls : Discover(j, n)
    \/ \E e \in Exceptions : DiscoverFails(j, e)
    \/ Submit(j) \/ SubmitReport(j) \/ SubmitUrl(j) \/ AllSubmitted(j)
    \/ \E u \in 1..MaxUrls : WaitNext(j, u)
    \/ WaitDone(j)
    \/ RunnerReturn(j)
    \/ WorkerMark(j)
    \/ WorkerExit(j)

UnitStep(j, u) ==
    \/ UnitStart(j, u)
    \/ \E n \in 0..MaxProducts : UnitFetch(j, u, n)
    \/ UnitFetchFails(j, u)
    \/ \E c \in Candidates : UnitExamine(j, u, c)
    \/ UnitCheckpoint(j, u)
    \/ UnitSave(j, u)
    \/ \E o \in ClassifyOutcomes : UnitClassify(j, u, o)
    \/ UnitClassifyFails(j, u)
    \/ \E o \in PricingOutcomes, a \in BOOLEAN : UnitPricing(j, u, o, a)
    \/ \E o \in PricingOutcomes : UnitAssurmax(j, u, o)
    \/ UnitRead(j, u)
    \/ UnitReport(j, u)

\* every thread that can take a step takes one in the end, and every call of
\* a collaborator returns or raises: the handler and the worker thread of the
\* scenario's job (one after the other), and each unit of its run
Fairness ==
    /\ WF_vars(\E j \in JobIds : StartStep(j) \/ RunnerStep(j))
    /\ \A u \in 1..MaxUrls : WF_vars(\E j \in JobIds : UnitStep(j, u))

\* one job with a small run, under fair scheduling
SpecLive == InitLive /\ [][Next]_vars /\ Fairness

NextStats ==
    \E j \in JobIds :
        \/ \E s \in StartUrls, cats \in CategoryFilters : CreateJob(j, s, cats)
        \/ MarkRunning(j)
        \/ LaunchThread(j)
        \/ WorkerMark(j)
        \/ WorkerExit(j)
        \/ ReportPhase(j)
        \/ \E n \in 0..MaxUrls : Discover(j, n)
        \/ Submit(j)
        \/ SubmitReport(j)
        \/ SubmitUrl(j)
        \/ AllSubmitted(j)
        \/ \E u \in 1..MaxUrls : WaitNext(j, u)
        \/ WaitDone(j)
        \/ RunnerReturn(j)
        \/ \E u \in 1..MaxUrls :
              \/ UnitStart(j, u)
              \/ \E n \in 0..MaxProducts : UnitFetch(j, u, n)
              \/ \E c \in StatsCandidates : CandidateScraped(j, u, c)
              \/ CandidateChecks(j, u)
              \/ CandidateValidate(j, u)
              \/ \E e \in BOOLEAN : CandidateProcessed(j, u, e)
              \/ SectionAcquire(j, u)
              \/ SectionLoad(j, u)
              \/ SectionStore(j, u)
              \/ SectionSeen(j, u)
              \/ SectionRelease(j, u)
              \/ UnitRead(j, u)
              \/ UnitReport(j, u)

\* one job whose run has several units, their statistics sections followed
\* step by step
SpecStats == InitStats /\ [][NextStats]_vars


(***************************************************************************)
(* Properties of the job registry and the worker.                          *)
(***************************************************************************)
\* the worker thread of job j has marked the job's end
Ended(j) == pc[j] \in {"finishing", "exited"}

\* C1: a stop requested while the run is in progress (some dispatched units
\* completed, others not) ends the job STOPPED with the error text
\* "Stopped by user", not COMPLETED or FAILED.
C1_StopMidRunEndsStopped ==
    \A j \in JobIds :
        Ended(j) /\ hist[j].stop_mid =>
            jobs[j].status = "stopped" /\ jobs[j].error = "Stopped by user"

\* C2: two consecutive statuses of a job only form one of PENDING->RUNNING,
\* RUNNING->COMPLETED, RUNNING->FAILED, RUNNING->STOPPING, STOPPING->STOPPED
\* (and the creation of the job, which gives it its first status).
AllowedTransitions ==
    { <<"none", "pending">>, <<"pending", "running">>, <<"running", "completed">>,
      <<"running", "failed">>, <<"running", "stopping">>, <<"stopping", "stopped">> }

C2_OnlyAllowedTransitions ==
    [][\A j \in JobIds :
          jobs'[j].status # jobs[j].status =>
              <<jobs[j].status, jobs'[j].status>> \in AllowedTransitions]_vars

\* C3: terminal statuses are absorbing: once a job is COMPLETED, FAILED or
\* STOPPED no step changes its status (so STOPPING never follows them).
C3_TerminalAbsorbing ==
    [][\A j \in JobIds :
          jobs[j].status \in Terminal => jobs'[j].status = jobs[j].status]_vars

\* a stop was requested for a job that had ended, and the job kept its status
C3_Witness ==
    \E j \in JobIds :
        hist[j].late_stop /\ jobs[j].stop_requested /\ jobs[j].status = "completed"

\* C4: when the discovery call fails, the job ends FAILED with an error text
\* carrying the failure's message, not COMPLETED.
C4_DiscoveryFailureEndsFailed ==
    \A j \in JobIds :
        Ended(j) /\ ret[j].kind = "discovery_failed" =>
            jobs[j].status = "failed" /\ jobs[j].error # ""

\* C5: when the pipeline raises an exception other than the stop signal, the
\* job is marked FAILED with the error text "<type>: <message>", and the
\* other jobs can still be created, started and stopped.
C5_ExceptionEndsFailed ==
    \A j \in JobIds :
        Ended(j) /\ ret[j].kind = "raise" /\ ret[j].type # "JobStopRequested" =>
            /\ jobs[j].status = "failed"
            /\ jobs[j].error = ret[j].type \o ": " \o ret[j].error
            /\ \A k \in JobIds \ {j} :
                  /\ pc[k] = "none" /\ k <= scn.jobs /\ (\A i \in 1..(k - 1) : pc[i] # "none")
                        => ENABLED CreateJob(k, StartUrl, <<>>)
                  /\ pc[k] = "created" => ENABLED MarkRunning(k)
                  /\ pc[k] = "marked" => ENABLED LaunchThread(k)
                  /\ pc[k] = "returned" => ENABLED WorkerMark(k)
                  /\ jobs[k].status # "none" => ENABLED RequestStop(k)

\* one job failed with "OperationalError: db down" and its thread ended,
\* while another job runs on and has been asked to stop
C5_Witness ==
    \E j, k \in JobIds :
        /\ pc[j] = "exited" /\ ret[j].kind = "raise"
        /\ jobs[j].error = "OperationalError: db down"
        /\ k # j /\ jobs[k].status = "stopping" /\ k \in threads

(***************************************************************************)
(* Properties of one run of the pipeline.                                  *)
(***************************************************************************)
Rows(j) == {r \in store : r.key.job = j}

\* the run of job j has returned and every unit of it has ended
RunOver(j) ==
    /\ pc[j] \in {"returned", "finishing", "exited"}
    /\ \A u \in DOMAIN units[j] : units[j][u].pc \in UnitDone

\* C6: a validated record whose classification or pricing failed is degraded
\* to an ineligible result record with a non-empty reason, is in the store
\* and is counted not-eligible.
C6_EnrichmentFailureDegrades ==
    \A j \in JobIds :
        /\ \A r \in Rows(j) :
              r.failure # "" =>
                  /\ r.processing_status = "completed"
                  /\ r.package = "not_eligible"
                  /\ r.reason # ""
        /\ Cardinality({r \in Rows(j) : r.failure # ""}) <= stats[j].not_eligible

\* C7: no record is persisted unless its candidate carried a name, an address
\* of its own, a price that parses to a number > 0 and a currency that
\* normalizes into the allow-set.
C7_PersistedOnlyIfComplete ==
    \A r \in store :
        LET c == r.product.raw
        IN  /\ c.product_name \notin {None, <<>>}
            /\ c.product_url \notin {None, <<>>}
            /\ normalize_url(c.product_url) # None
            /\ parse_price(c.price) # NoPrice
            /\ normalize_currency(c.currency) \in ALLOWED_CURRENCIES

\* C8: the counters of a run balance: scraped >= validated + invalid, and
\* validated = duplicates + processed, where validated counts the candidates
\* that pass validation. Stated for the runs that ended without a stop and
\* without a collaborator's failure, in which every saved record was
\* processed to the end.
C8_CountersBalance ==
    \A j \in JobIds :
        /\ RunOver(j)
        /\ ret[j].kind = "success"
        /\ ~stop_flag[j]
        /\ \A r \in Rows(j) : r.processing_status = "completed"
        => /\ stats[j].scraped >= hist[j].validated + stats[j].invalid
           /\ hist[j].validated = stats[j].duplicates + stats[j].processed

\* the canonical identity the deduplication is specified with: no trailing
\* slash, no leading "www." in the host
StripWww(netloc) ==
    IF StartsWith(netloc, <<"w", "w", "w", ".">>) THEN SubSeq(netloc, 5, Len(netloc))
    ELSE netloc

Identity(url) ==
    LET parsed == urlparse(url)
    IN  RStrip(parsed.scheme \o <<":", "/", "/">> \o StripWww(parsed.netloc)
                 \o parsed.path, "/")

\* C9: addresses that differ only by a trailing slash or only by a leading
\* "www." have one canonical identity, so a run persists at most one record
\* per identity and counts the others duplicate.
C9_OneRecordPerIdentity ==
    /\ canonical_url(UrlA) = canonical_url(UrlASlash)
    /\ \A j \in JobIds : \A r1, r2 \in Rows(j) :
          Identity(r1.product.product_url) = Identity(r2.product.product_url) => r1 = r2


\* C10: close() of the batched writer is a synchronization barrier: when
\* close() returns, the queue is empty, no batch is pending and the writer
\* thread has ended, so that every record enqueued before close() was called
\* has been flushed, and no record is written after close() has returned.
C10_CloseIsBarrier ==
    [][ /\ (closer.pc = "joining" /\ closer'.pc = "returned") =>
              /\ product_queue' = <<>>
              /\ writer'.batch = <<>>
              /\ writer'.pc = "done"
              /\ whist'.at_close \subseteq whist'.flushed
        /\ (closer.returns >= 1 => table' = table /\ whist'.flushed = whist.flushed)
      ]_vars

\* the writer's counters agree with what its flushes did: every flushed
\* record is either inserted or failed, never both, and added and invalid
\* count them (invalid also counts the records add_product rejected)
FlushAccounting ==
    /\ table \cap whist.failed = {}
    /\ table \cup whist.failed = whist.flushed
    /\ wstats.added = Cardinality(table)
    /\ wstats.invalid = whist.rejected + Cardinality(whist.failed)

\* C11: when the bulk insert of a batch fails, every record of the batch is
\* retried alone and counted exactly once, as inserted or as failed, and the
\* count of the records that could not be inserted is in the statistics
\* reported after close().
C11_FailedInsertsReported ==
    /\ FlushAccounting
    /\ closer.returns >= 1 =>
          whist.reported.invalid = whist.rejected + Cardinality(whist.failed)

\* the flushes the claim C12 gives for n records and batch size b
ExpectedFlushes(n, b) ==
    [i \in 1..((n + b - 1) \div b) |-> IF i * b <= n THEN b ELSE n % b]

\* C12: when every record was enqueued before the writer dequeued any, the
\* writer that has ended made exactly ceil(N/B) flushes for the N records
\* enqueued, each of size B except a last one of size N mod B.
C12_FlushCount ==
    writer.pc = "done" /\ ~whist.interleaved =>
        whist.flushes = ExpectedFlushes(Cardinality(wseen), BatchSize)

\* three records were enqueued before the writer took any, and the writer
\* ended after two flushes, the last one not full
C12_Witness ==
    /\ writer.pc = "done" /\ ~whist.interleaved
    /\ Cardinality(wseen) = 3
    /\ Len(whist.flushes) = 2 /\ whist.flushes[2] < whist.flushes[1]

RECURSIVE SumSeq(_)
SumSeq(q) == IF q = <<>> THEN 0 ELSE Head(q) + SumSeq(Tail(q))

\* C13: a second close() after the first one returned is safe: its steps
\* flush nothing and write nothing, and no record is flushed twice (the
\* sizes of the flushes add up to the number of records flushed, and the
\* records counted inserted are the records in the table).
C13_SecondCloseSafe ==
    [][ /\ (closer.returns >= 1 /\ closer' # closer) =>
              table' = table /\ whist'.flushes = whist.flushes
        /\ SumSeq(whist'.flushes) = Cardinality(whist'.flushed)
        /\ wstats'.added = Cardinality(table')
      ]_vars

\* close() was called twice and returned twice, the writer has ended and
\* records were written
C13_Witness ==
    closer.returns = 2 /\ writer.pc = "done" /\ table # {}

(***************************************************************************)
(* Properties of the units of a run.                                       *)
(***************************************************************************)
\* the rows the unit u of job j has persisted
UnitRows(st, j, u) == {r \in st : r.key.job = j /\ r.key.unit = u}

\* C14: once a unit has observed the stop flag set at one of its checkpoints
\* (the observing step included), it examines no later candidate and
\* persists nothing.
C14_NothingAfterStopObserved ==
    [][\A j \in JobIds : \A u \in DOMAIN units[j] :
          units'[j][u].pc = "stop" \/ u \in hist'[j].saw_stop =>
              /\ units'[j][u].idx = units[j][u].idx
              /\ UnitRows(store', j, u) = UnitRows(store, j, u)]_vars

\* C15: the statistics a run reports are final: once the run has returned
\* and the job has its final status, no unit of the run increments a counter
\* or persists a record, and the job's progress stays as it is.
C15_StatisticsFrozen ==
    [][\A j \in JobIds :
          Ended(j) =>
              /\ stats'[j] = stats[j]
              /\ {r \in store' : r.key.job = j} = Rows(j)
              /\ jobs'[j].progress = jobs[j].progress]_vars

\* C16: a failure of the fetch for one address stays inside that address's
\* unit: when no stop is requested, every other dispatched address is fetched
\* and its unit ends normally, and the run ends completed, not failed or
\* stopped.
C16_FetchFailureContained ==
    \A j \in JobIds :
        Ended(j) /\ hist[j].fetch_failed # {} /\ ~jobs[j].stop_requested =>
            /\ ret[j].kind = "success"
            /\ jobs[j].status = "completed"
            /\ \A u \in DOMAIN units[j] \ hist[j].fetch_failed : units[j][u].pc = "ok"

\* the fetch of the first address failed, the record of the second address
\* was processed and the job is completed
C16_Witness ==
    \E j \in JobIds :
        /\ Ended(j) /\ hist[j].fetch_failed = {1} /\ ~jobs[j].stop_requested
        /\ jobs[j].status = "completed"
        /\ \E r \in Rows(j) : r.key.unit = 2 /\ r.processing_status = "completed"

\* C17: in a unit whose fetch succeeded only the stop signal ends the unit
\* before all its candidates were examined: a unit that ended without the
\* stop signal has no candidate left.
C17_OnlyStopEndsUnitEarly ==
    \A j \in JobIds : \A u \in DOMAIN units[j] :
        units[j][u].pc = "ok" /\ ~jobs[j].stop_requested => units[j][u].left = 0

(***************************************************************************)
(* Properties of the registry's operations.                                *)
(***************************************************************************)
\* C18: request_stop sets the stop flag and changes the status to STOPPING
\* exactly when the status is RUNNING, and it is idempotent: on a job whose
\* stop flag is already set it changes neither the flag nor the status.
C18_RequestStopIdempotent ==
    \A j \in JobIds :
        jobs[j].status # "none" =>
            LET after == request_stop(jobs, j)
            IN  /\ after[j].stop_requested
                /\ after[j].status = IF jobs[j].status = "running" THEN "stopping"
                                     ELSE jobs[j].status
                /\ jobs[j].stop_requested => after = jobs

\* partial progress maps handed to update_progress
ProgressMaps ==
    { [phase |-> "scraping"], [processed |-> 1, eligible |-> 0],
      [current_url |-> "http://x.c/a"] }

\* C19: update_progress sets exactly the keys of the partial map in the
\* job's progress and leaves every other progress key, the job's status,
\* stop flag, result and error, and the other jobs, unchanged; two calls with
\* disjoint keys lose no key, in either order.
C19_UpdateProgressMerges ==
    \A j \in JobIds : \A p \in ProgressMaps :
        jobs[j].status # "none" =>
            LET after == update_progress(jobs, j, p)
            IN  /\ DOMAIN after[j].progress = DOMAIN jobs[j].progress \cup DOMAIN p
                /\ \A k \in DOMAIN p : after[j].progress[k] = p[k]
                /\ \A k \in DOMAIN jobs[j].progress \ DOMAIN p :
                      after[j].progress[k] = jobs[j].progress[k]
                /\ after = [jobs EXCEPT ![j].progress = after[j].progress]
                /\ \A q \in ProgressMaps :
                      DOMAIN p \cap DOMAIN q = {} =>
                          /\ update_progress(after, j, q)
                                = update_progress(update_progress(jobs, j, q), j, p)
                          /\ DOMAIN p \cup DOMAIN q
                                \subseteq DOMAIN update_progress(after, j, q)[j].progress

\* a job's progress holds the phase reported by the pipeline thread and the
\* counters reported by a unit
C19_Witness ==
    \E j \in JobIds :
        /\ jobs[j].status = "running"
        /\ {"phase", "processed"} \subseteq DOMAIN jobs[j].progress

\* C20: a Job value handed out by the registry is a snapshot: registry
\* operations performed after the call do not change the value the caller
\* holds.
C20_HandedOutJobIsSnapshot ==
    held # NoHandle => HeldValue = held.seen

(***************************************************************************)
(* Properties of the job API.                                              *)
(***************************************************************************)
\* the text carries the scheme "http://" or "https://" in front
SchemeInFront(url) == StartsWith(url, HttpPrefix) \/ StartsWith(url, HttpsPrefix)

\* C21: a job-creation request whose start address lacks the scheme http://
\* or https:// is answered 400 and has no effect: every job of the registry
\* has a start address with a scheme, and the step that raises the 400
\* changes no job, no thread and no run.
C21_SchemelessStartUrlRejected ==
    /\ [](\A s \in scn.start_urls :
              ~SchemeInFront(s) /\ http_error = NoError => ENABLED CreateJobRejected(s))
    /\ [](\A j \in JobIds : jobs[j].status # "none" => SchemeInFront(jobs[j].start_url))
    /\ [][http_error'.status_code = 400 /\ http_error' # http_error =>
              jobs' = jobs /\ threads' = threads /\ runvars' = runvars]_vars

\* a creation request was refused with 400 while one job runs, and the
\* registry holds no second job
C21_Witness ==
    /\ http_error = HTTPException("create_job", 0, 400, "Invalid URL")
    /\ jobs[1].status = "running"
    /\ \A j \in JobIds \ {1} : jobs[j].status = "none"

\* C22: the stop operation only calls request_stop and returns without
\* waiting for the run: it can complete in every state in which the job
\* exists, whatever the run is doing, and its step changes the job as
\* request_stop does and nothing of the thread, the run or its units.
C22_StopReturnsWithoutWaiting ==
    /\ [](\A j \in JobIds : jobs[j].status # "none" => ENABLED RequestStop(j))
    /\ [][\A j \in JobIds :
              RequestStop(j) =>
                  /\ jobs' = request_stop(jobs, j)
                  /\ threads' = threads /\ pc' = pc /\ ret' = ret
                  /\ stop_flag' = stop_flag /\ units' = units
                  /\ stats' = stats /\ store' = store]_vars

\* the stop operation has returned for a job whose thread is alive and whose
\* run has one unit in its fetch and another not started
C22_Witness ==
    \E j \in JobIds :
        /\ jobs[j].stop_requested /\ jobs[j].status = "stopping"
        /\ j \in threads /\ pc[j] = "wait" /\ ~stop_flag[j]
        /\ \E u, v \in DOMAIN units[j] :
              units[j][u].pc = "fetch" /\ units[j][v].pc = "pending"

\* C23: every operation addressed to a job id the registry does not have
\* reports not-found and changes nothing: get_job gives no job, update_job,
\* update_progress, the mark operations and request_stop return false and
\* leave the registry as it is, should_stop is false, and the API answers
\* 404 with a step that changes no job.
C23_UnknownIdNotFound ==
    /\ [](\A j \in JobIds :
              jobs[j].status = "none" =>
                  /\ get_job(jobs, j) = NoJob
                  /\ ~Found(jobs, j)
                  /\ ~should_stop(jobs, j)
                  /\ update_job(jobs, j, [status |-> "stopped", error |-> "x"]) = jobs
                  /\ \A p \in ProgressMaps : update_progress(jobs, j, p) = jobs
                  /\ mark_running(jobs, j) = jobs
                  /\ mark_completed(jobs, j, "success") = jobs
                  /\ mark_failed(jobs, j, "Error: x") = jobs
                  /\ request_stop(jobs, j) = jobs
                  /\ http_error = NoError =>
                        \A op \in ApiOps : ENABLED JobNotFound(op, j))
    /\ [][http_error'.status_code = 404 /\ http_error' # http_error =>
              jobs' = jobs /\ threads' = threads /\ runvars' = runvars]_vars

\* a stop request for an id the registry does not have was answered 404
\* while the registry's one job runs
C23_Witness ==
    /\ http_error = HTTPException("stop_job", 2, 404, "Job not found")
    /\ jobs[1].status = "running" /\ jobs[2].status = "none"

(***************************************************************************)
(* Properties of the record validator.                                     *)
(***************************************************************************)
\* the raw price denotes a number > 0: a number that is > 0, or a text made
\* of digits, thousands separators and at most one decimal point, without a
\* sign, with a digit other than 0
DenotesPositive(value) ==
    CASE value.kind = "none" -> FALSE
      [] value.kind = "num" -> value.num > 0
      [] value.kind = "str" ->
            LET t == Strip(value.str)
            IN  /\ \A i \in 1..Len(t) : t[i] \in Digits \cup {",", "."}
                /\ Cardinality({i \in 1..Len(t) : t[i] = "."}) <= 1
                /\ \E i \in 1..Len(t) : t[i] \in Digits \ {"0"}

\* raw prices the claim C24 names as rejected: missing, not positive, no digit
RejectedPrices ==
    { [kind |-> "none"], [kind |-> "num", num |-> 0], [kind |-> "num", num |-> 0 - 500],
      PriceFree, [kind |-> "str", str |-> <<>>] }

\* C24: price parsing accepts a price only when it denotes a number > 0:
\* "1,299.00" with "AED" gives 1299.00 and "AED"; a missing price, a number
\* that is not positive, "Free" and the empty text are rejected; and no
\* record is persisted whose raw price does not denote a number > 0 or whose
\* currency is outside the allow-set.
C24_OnlyPositivePricesAccepted ==
    /\ parse_price(PriceText) = [ok |-> TRUE, v |-> 129900]
    /\ normalize_currency(AED) = AED
    /\ \A value \in RejectedPrices : parse_price(value) = NoPrice
    /\ \A r \in store :
          /\ DenotesPositive(r.product.raw.price)
          /\ normalize_currency(r.product.raw.currency) \in ALLOWED_CURRENCIES

(***************************************************************************)
(* Properties of the Seen-Set and the statistics of a run.                 *)
(***************************************************************************)
\* the candidate c of unit u reaches the Seen-Set test: it has a name, passes
\* the category filter and has an address
ReachesSeenSet(j, u, c) ==
    /\ c.product_name \notin {None, <<>>}
    /\ match_product_to_selected_categories(
           c.product_name, c.category, jobs[j].selected_categories)
    /\ normalize_url(IF c.product_url \in {None, <<>>} THEN PageUrl(u)
                     ELSE c.product_url) # None

CanonOf(u, c) ==
    canonical_url(normalize_url(IF c.product_url \in {None, <<>>} THEN PageUrl(u)
                                ELSE c.product_url))

\* C25: for any interleaving of the units of one run, at most one candidate
\* per canonical address passes the Seen-Set test and is persisted, and every
\* other candidate with that canonical address is counted duplicate and goes
\* no further.
C25_OnePerCanonicalAddress ==
    /\ [](\A j \in JobIds :
              /\ \A r1, r2 \in Rows(j) :
                    r1.product.product_url = r2.product.product_url => r1 = r2
              /\ \A r \in Rows(j) : r.product.product_url \in seen_urls[j])
    /\ [][\A j \in JobIds : \A u \in DOMAIN units[j] : \A c \in scn.cands :
              UnitExamine(j, u, c) /\ ~stop_flag[j] /\ ReachesSeenSet(j, u, c) =>
                  IF CanonOf(u, c) \in seen_urls[j]
                  THEN /\ stats'[j].duplicates = stats[j].duplicates + 1
                       /\ seen_urls'[j] = seen_urls[j]
                       /\ units'[j][u].pc # "save"
                  ELSE /\ stats'[j].duplicates = stats[j].duplicates
                       /\ seen_urls'[j] = seen_urls[j] \cup {CanonOf(u, c)}]_vars

\* the two units of a run have each examined a candidate with one and the
\* same canonical address: one record is persisted, the other candidate is
\* counted duplicate
C25_Witness ==
    \E j \in JobIds :
        /\ DOMAIN units[j] = {1, 2}
        /\ units[j][1].idx = 1 /\ units[j][2].idx = 1
        /\ Cardinality(seen_urls[j]) = 1
        /\ stats[j].duplicates = 1
        /\ Cardinality(Rows(j)) = 1

\* the counters of a progress update agree with each other
Consistent(p) ==
    p.processed = p.eligible + p.not_eligible /\ p.processed <= p.scraped

\* C26: every statistics snapshot passed to the progress callback is a
\* consistent cumulative snapshot under any interleaving of the units: the
\* update a unit is about to pass, and the update the job's progress holds,
\* satisfy processed = eligible + not_eligible and processed <= scraped.
C26_SnapshotConsistent ==
    \A j \in JobIds :
        /\ \A u \in DOMAIN units[j] :
              units[j][u].pc = "report" => Consistent(Snapshot(units[j][u].read))
        /\ "processed" \in DOMAIN jobs[j].progress => Consistent(jobs[j].progress)

\* C27: no record is left half-written: when the run has returned and all
\* its units have ended, every product record the run persisted has its
\* enrichment result persisted too (processing status 'completed' with an
\* insurance package); none is left in status 'processing'.
C27_NoHalfWrittenRecord ==
    \A j \in JobIds :
        RunOver(j) =>
            \A r \in Rows(j) : r.processing_status = "completed" /\ r.package # "none"

(***************************************************************************)
(* Properties of the stop of a run.                                        *)
(***************************************************************************)
\* the result of the run of job j reports the run stopped
ReportsStopped(j) == ret[j].kind \in {"stopped", "stopped_early"}

\* C28: if the progress callback raises at any point of a run, in the runner
\* or in a unit, the run's stop flag is set, and the result of the run, once
\* it has returned, reports the run stopped and never completed.
C28_RaisingCallbackStopsRun ==
    \A j \in JobIds :
        cb_raised[j] =>
            /\ stop_flag[j]
            /\ pc[j] \in {"returned", "finishing", "exited"} => ReportsStopped(j)

\* units that are running are not aborted when the stop flag is set, and a
\* unit that has not started when the flag is set performs no fetch
StopSparesRunningUnits ==
    /\ [](\A j \in JobIds : \A u \in DOMAIN units[j] :
              stop_flag[j] /\ units[j][u].pc = "fetch" => ENABLED UnitFetch(j, u, 0))
    /\ [][\A j \in JobIds : \A u \in DOMAIN units[j] :
              /\ units[j][u].pc \notin {"pending", "cancelled"} =>
                    units'[j][u].pc # "cancelled"
              /\ stop_flag[j] /\ units[j][u].pc = "pending" =>
                    units'[j][u].pc \in {"pending", "stop", "cancelled"}]_vars

\* C29: once the run's stop flag is set, the runner submits no further
\* address to the worker pool; units already running are not forcibly
\* aborted, and a unit that was submitted but had not started performs no
\* fetch.
C29_NoSubmitAfterStopFlag ==
    /\ [][\A j \in JobIds : stop_flag[j] => submitted'[j] = submitted[j]]_vars
    /\ StopSparesRunningUnits

\* C29 as the runner keeps it: once the stop flag is set, the runner begins
\* no further round of the submit loop; the one address whose stop check and
\* progress report had passed when the flag was set may still be submitted;
\* units already running are not aborted, and a unit that had not started,
\* the one submitted late included, performs no fetch.
C29_NoSubmitAfterStopObserved ==
    /\ [][\A j \in JobIds :
              /\ stop_flag[j] /\ submitted'[j] # submitted[j] =>
                    pc[j] = "submitting" /\ pc'[j] = "submit"
              /\ stop_flag[j] /\ pc[j] \in {"submit", "url_submitted"} =>
                    pc'[j] \in {pc[j], "all_submitted"}]_vars
    /\ [](\A j \in JobIds : Cardinality(hist[j].late_submit) <= 1)
    /\ StopSparesRunningUnits

\* the stop flag was set by a unit's report while the runner was about to
\* submit the second address: that address was submitted, its unit ended at
\* its first stop check without a fetch, and the first unit was not aborted
C29_Witness ==
    \E j \in JobIds :
        /\ hist[j].late_submit = {2}
        /\ units[j][2].pc = "stop" /\ units[j][2].idx = 0
        /\ units[j][1].pc \in {"ok", "exc"}
        /\ pc[j] = "exited"

\* C30: if the job's stop flag is set before the run starts, or becomes set
\* while the discovery call is in progress, the run dispatches no fetch unit
\* and persists no record, and its result reports the run stopped.
C30_EarlyStopDispatchesNothing ==
    \A j \in JobIds :
        hist[j].stop_early =>
            /\ submitted[j] = 0 /\ units[j] = <<>>
            /\ Rows(j) = {}
            /\ pc[j] \in {"returned", "finishing", "exited"} => ReportsStopped(j)

\* C31: a candidate is tested against and inserted into the Seen-Set only
\* after it passed validation: a round of the candidate loop that changes the
\* Seen-Set of a run examines a candidate that passes every validation check,
\* so that a candidate rejected as invalid (price or currency) leaves the
\* Seen-Set as it was and a later valid candidate with the same canonical
\* address is not counted duplicate because of it.
C31_SeenSetOnlyAfterValidation ==
    [][\A j \in JobIds : \A u \in DOMAIN units[j] : \A c \in scn.cands :
          UnitExamine(j, u, c) /\ seen_urls'[j] # seen_urls[j]
              => PassesValidation(j, u, c)]_vars

\* every unit submitted in run j has ended, and the run submits no more
UnitsFinished(j) ==
    /\ pc[j] \notin {"none", "created", "marked"} \cup ReportPositions
                    \cup {"map", "submit", "url_submitted", "submitting"}
    /\ \A u \in DOMAIN units[j] : units[j][u].pc \in UnitDone

\* C32: statistics increments are atomic: under any interleaving of the units
\* of a run no increment is lost, so when all units have finished each counter
\* equals the number of events of its kind, and processed = eligible +
\* not_eligible holds whenever the statistics lock is free.
C32_IncrementsAtomic ==
    \A j \in JobIds :
        /\ stats_lock(j) = {} =>
               stats[j].processed = stats[j].eligible + stats[j].not_eligible
        /\ UnitsFinished(j) =>
               \A k \in DOMAIN ZeroStats : stats[j][k] = hist[j].events[k]

\* two units of a run have ended, each has counted its candidate, and both
\* records were processed
C32_Witness ==
    \E j \in JobIds :
        /\ UnitsFinished(j)
        /\ Cardinality(DOMAIN units[j]) = 2
        /\ stats[j].scraped = 2
        /\ stats[j].processed = 2
        /\ stats[j].eligible = 1 /\ stats[j].not_eligible = 1

\* job j was started through the supervisor (start_job was called for it)
Started(j) == pc[j] \notin {"none", "created"}

\* C33: every job started through the supervisor eventually reaches a
\* terminal status (COMPLETED, FAILED or STOPPED) and does not stay RUNNING
\* or STOPPING forever, under fair scheduling and when every collaborator
\* call returns or raises.
C33_StartedJobEnds ==
    \A j \in JobIds : Started(j) ~> jobs[j].status \in Terminal

\* a job whose run processed a record, and whose stop was requested, has
\* reached a terminal status and its thread has ended
C33_Witness ==
    \E j \in JobIds :
        /\ pc[j] = "exited"
        /\ jobs[j].status \in Terminal
        /\ jobs[j].stop_requested
        /\ submitted[j] = 1 /\ stats[j].processed = 1

\* C34: in every reachable state, a job whose stop flag is set does not have
\* status PENDING or RUNNING: a stop-requested job that has not finished
\* shows STOPPING, for any interleaving of create, start and stop requests.
C34_StopRequestedShowsStopping ==
    \A j \in JobIds :
        jobs[j].stop_requested => jobs[j].status \notin {"pending", "running"}

C36_SeenSetAndStatsPerRun ==
    /\ [][\A j \in JobIds :
              (stats'[j] # stats[j] \/ seen_urls'[j] # seen_urls[j]) =>
                  /\ units'[j] # units[j]
                  /\ \A k \in JobIds \ {j} :
                        stats'[k] = stats[k] /\ seen_urls'[k] = seen_urls[k]]_vars
    /\ [][\A j \in JobIds : \A u \in DOMAIN units[j] : \A c \in scn.cands :
              UnitExamine(j, u, c) /\ ~stop_flag[j] /\ ReachesSeenSet(j, u, c)
                  /\ CanonOf(u, c) \notin seen_urls[j]
              => /\ stats'[j].duplicates = stats[j].duplicates
                 /\ seen_urls'[j] = seen_urls[j] \cup {CanonOf(u, c)}]_vars

\* two runs have each seen the same address and each processed its record:
\* neither counted a duplicate
C36_Witness ==
    \E j, k \in JobIds :
        /\ j # k
        /\ seen_urls[j] # {} /\ seen_urls[j] = seen_urls[k]
        /\ stats[j].processed = 1 /\ stats[k].processed = 1
        /\ stats[j].duplicates = 0 /\ stats[k].duplicates = 0

(***************************************************************************)
(* Properties of the writer's flushes and accounting.                      *)
(***************************************************************************)
\* the step is a flush of the writer
Flushes == Len(whist'.flushes) = Len(whist.flushes) + 1

\* the step is a dequeue after which the pending batch has the batch size
DequeueFills ==
    /\ writer.pc = "get" /\ writer' # writer
    /\ product_queue # <<>>
    /\ Len(writer.batch) + 1 >= BatchSize

\* the step is a dequeue that finds the queue empty while records are pending
DequeueFindsEmpty ==
    /\ writer.pc = "get" /\ writer' # writer
    /\ product_queue = <<>>
    /\ writer.batch # <<>>

\* the step is the end of the writer thread, after the loop, with records
\* pending
FinalFlush ==
    /\ writer.pc = "final" /\ writer' # writer
    /\ writer.batch # <<>>

\* every flush holds between 1 and batch_size records, and the pending batch
\* never exceeds batch_size
FlushSizes ==
    /\ \A i \in 1..Len(whist.flushes) : whist.flushes[i] \in 1..BatchSize
    /\ Len(writer.batch) <= BatchSize

\* C37: the writer flushes exactly when the pending batch reaches the batch
\* size, or when a dequeue finds the queue empty while the pending batch is
\* non-empty: every flush holds between 1 and batch_size records, an empty
\* batch is never flushed, and the pending batch never exceeds batch_size.
C37_FlushExactlyWhenFullOrIdle ==
    /\ []FlushSizes
    /\ [][Flushes <=> (DequeueFills \/ DequeueFindsEmpty)]_vars

\* C37 as it holds: the writer flushes exactly when a dequeue brings the
\* pending batch to the batch size, when a dequeue finds the queue empty
\* while the pending batch is non-empty, or when the loop has ended (stop
\* event set, queue empty) and records are still pending: the final flush.
\* Every flush holds between 1 and batch_size records and the pending batch
\* never exceeds batch_size.
C37_FlushWhenFullIdleOrFinal ==
    /\ []FlushSizes
    /\ [][Flushes <=> (DequeueFills \/ DequeueFindsEmpty \/ FinalFlush)]_vars

\* the writer thread has ended after a flush of a full batch and a flush of
\* a smaller one
C37_Witness ==
    /\ writer.pc = "done"
    /\ \E i, k \in 1..Len(whist.flushes) :
          whist.flushes[i] = BatchSize /\ whist.flushes[k] < BatchSize

\* close() has returned and the writer thread has ended
ConsumerFinished == closer.returns > 0 /\ writer.pc = "done"

\* C38: every record handed to the writer is accounted for exactly once:
\* after close() with the consumer finished, total = added + duplicates +
\* invalid, for any interleaving of the producer with the consumer and for
\* any pattern of insert failures; the records inserted are the ones counted
\* added, the records rejected by validation or by the database the ones
\* counted invalid, and no record is left in the queue or in the batch.
C38_EveryRecordAccounted ==
    ConsumerFinished =>
        /\ wstats.total = wstats.added + wstats.duplicates + wstats.invalid
        /\ wstats.added = Cardinality(table)
        /\ wstats.invalid = whist.rejected + Cardinality(whist.failed)
        /\ table \cap whist.failed = {}
        /\ product_queue = <<>> /\ writer.batch = <<>>

\* close() has returned after the writer thread ended, and the records
\* handed over were one of each kind: inserted, duplicate, rejected by
\* validation, refused by the database
C38_Witness ==
    /\ ConsumerFinished
    /\ wstats.total = 4
    /\ wstats.added = 1 /\ wstats.duplicates = 1
    /\ whist.rejected = 1 /\ Cardinality(whist.failed) = 1
    /\ whist.interleaved


====
